---- MODULE Spec2Model ----
(***************************************************************************)
(* Retrieval-confidence pipeline of the multimodal RAG service:            *)
(*   app/storage/vector_store.py     FAISS index + position->chunk mapping *)
(*   app/utils/diversity.py          round-robin file diversity reranker   *)
(*   app/core/llm.py                 generation entry points and parser    *)
(*   app/storage/learned_answers.py  learned-answer collection (MongoDB)   *)
(*   app/api/query.py                smart_query / internet_query          *)
(***************************************************************************)
EXTENDS Integers, Sequences, FiniteSets, TLC

VARIABLES
    index_ntotal,     \* _index.ntotal: number of vectors held by the FAISS index
    chunk_mapping,    \* _chunk_mapping: position -> chunk metadata
    fetched,          \* last call of get_chunks_by_indices: [indices, chunks]
    learned_answers,  \* the learned_answers collection, documents in natural order
    cache_call,       \* last direct call of the learned-answer storage functions
    response,         \* last response produced by smart_query / internet_query
    diversity,        \* one call of ensure_file_diversity: arguments and result
    parsed,           \* one call of parse_confidence_response: text and result
    store_call,       \* last step's call of add_embeddings / delete_by_file / search_vectors
    generation,       \* one call of generate_with_confidence / generate_with_groq: outcome and result
    disk,             \* the persisted faiss.index and chunk_mapping.json files
    threads,          \* add_embeddings calls in progress, one per thread: position and locals
    saves,            \* save_learned_answer calls in progress, one per client: position and document
    lookups,          \* search_learned_answer calls in progress, one per client
    next_id,          \* the next _id the database server hands to an inserted document
    ollama,           \* one call of generate_with_ollama: attempts made, sleeps and result
    classified,       \* one call of get_question_context: question, type and guidance
    embedded          \* last embedding handed to the index: configuration, dimensions and outcome

vars == <<index_ntotal, chunk_mapping, fetched, learned_answers, cache_call,
          response, diversity, parsed,
          store_call,
          generation,
          disk,
          threads,
          saves,
          lookups,
          next_id,
          ollama,
          classified,
          embedded>>

\* ------------------------------------------------------------------ bounds
MaxVectors    == 3    \* vectors the index may hold when the store is checked alone
MaxIndexed    == 1    \* vectors the index may hold when queries are checked
MaxAdd        == 2    \* chunks of one add_embeddings call
MaxFetch      == 2    \* length of an index list handed to get_chunks_by_indices
MaxCandidates == 4    \* length of a candidate list handed to the reranker
MaxChunksArg  == 4    \* largest max_chunks argument
MaxPerFileArg == 3    \* largest max_per_file argument
MaxTextLen    == 5    \* tokens of a generation response
MaxTopK       == 1    \* largest top_k of a query
MaxAccess     == 2    \* largest access_count a lookup hit is explored from
MaxSearchK    == 2    \* largest k of a direct search_vectors call
MaxPersisted  == 2    \* vectors the index may hold when persistence is checked
MaxShared     == 3    \* vectors the index may hold when parallel calls are checked
MaxContextVectors == 4  \* vectors the index may hold when the context of a query is checked

\* ----------------------------------------------------------------- helpers
Min(a, b) == IF a <= b THEN a ELSE b

Max(a, b) == IF a >= b THEN a ELSE b

\* Sequences over S of length at most n.
SeqsUpTo(S, n) == UNION {[1..k -> S] : k \in 0..n}

\* Sequences over S without repetition, of length exactly n.
InjSeqs(S, n) == {s \in [1..n -> S] : \A i, j \in 1..n : i # j => s[i] # s[j]}

\* Python slice s[:n] (a negative n counts from the end).
PySlicePrefix(s, n) ==
    IF n >= 0 THEN SubSeq(s, 1, Min(n, Len(s)))
              ELSE SubSeq(s, 1, Max(Len(s) + n, 0))

\* `response` holds the response of the request handled in the last step; it is
\* idle after a step that handled no request.
ResponseIdle ==
    [endpoint |-> "none", question |-> <<>>, error |-> "none", source |-> "",
     answer |-> "", confidence_score |-> 0, offer_internet |-> FALSE,
     context |-> <<>>, calls |-> {}, store_ok |-> TRUE, generated |-> 0,
     save_if_confident |-> FALSE, saved_to_db |-> FALSE, top_k |-> 0,
     search_k |-> 0]

\* `fetched` holds the arguments and the result of get_chunks_by_indices when the
\* last step called it.
FetchedIdle == [called |-> FALSE, indices |-> <<>>, chunks |-> <<>>]

\* `store_call` holds the call of add_embeddings, delete_by_file or
\* search_vectors made in the last step: its arguments (the file, and the number
\* of chunks or k), the index size it found, whether it raised, and the
\* positions (add, search) or the count (delete) it returned; for a mutation, io is the outcome
\* of its writes.
StoreCallIdle == [op |-> "none", file_path |-> "", arg |-> 0, ntotal |-> 0, io |-> "ok",
                  raised |-> FALSE, indices |-> <<>>, count |-> 0]

\* `threads` holds, for every thread, the add_embeddings call it is in: pc is
\* the statement it executes next, start_idx and i are the locals of the call,
\* indices is the list it returned.
Threads == {1, 2}

ThreadIdle == [pc |-> "idle", file_path |-> "", n |-> 0, start_idx |-> 0, i |-> 0,
               indices |-> <<>>]

ThreadsIdle == [t \in Threads |-> ThreadIdle]

\* ============================================================ vector store
Files == {"file1.pdf", "file2.pdf"}

\* chunk_with_metadata: the metadata of chunk number idx of a file.  The key
\* 'deleted' is absent until delete_by_file writes it; FALSE stands for absent.
NewChunk(file_path, idx) ==
    [file_path |-> file_path, chunk_id |-> idx, deleted |-> FALSE]

\* Mutant of AddedIndices: the positions are counted from 0 on every call.
AddedIndicesFromZero(start_idx, n) == [i \in 1..n |-> i - 1]

\* add_embeddings returns indices: idx = start_idx + i for every chunk, in order.
AddedIndices(start_idx, n) == [i \in 1..n |-> start_idx + i - 1]

\* How the two writes of a mutation end.  save_index and save_mapping write
\* the files in place: a write that fails can leave the file as it was
\* ("..._fail") or partly written ("..._torn").  save_mapping runs after
\* save_index returned.
AddOutcomes == {"ok", "index_fail", "index_torn", "mapping_fail", "mapping_torn"}

DeleteOutcomes == {"ok", "mapping_fail", "mapping_torn"}

\* No file exists: get_index creates an empty index, the mapping is empty.
DiskInit == [index_ntotal |-> 0, index_torn |-> FALSE,
             mapping |-> <<>>, mapping_torn |-> FALSE]

\* save_index(): faiss.write_index(index, FAISS_INDEX_PATH)
SavedIndex(d, ntotal, io) ==
    CASE io = "index_fail" -> d
      [] io = "index_torn" -> [d EXCEPT !.index_torn = TRUE]
      [] OTHER             -> [d EXCEPT !.index_ntotal = ntotal, !.index_torn = FALSE]

\* save_mapping(): open(FAISS_MAPPING_PATH, 'w') and json.dump(mapping, f)
SavedMapping(d, mapping, io) ==
    CASE io = "mapping_fail" -> d
      [] io = "mapping_torn" -> [d EXCEPT !.mapping_torn = TRUE]
      [] OTHER               -> [d EXCEPT !.mapping = mapping, !.mapping_torn = FALSE]

\* add_embeddings with the outcome of its writes: the index and the mapping
\* in memory are extended first, then save_index() and save_mapping() run; an
\* exception of either leaves the function before the return statement.
AddEmbeddingsIO(file_path, n, io) ==
    /\ LET start_idx == index_ntotal
       IN  /\ index_ntotal' = index_ntotal + n
           /\ chunk_mapping' =
                [idx \in (DOMAIN chunk_mapping) \cup (start_idx..(start_idx + n - 1)) |->
                    IF idx \in start_idx..(start_idx + n - 1)
                    THEN NewChunk(file_path, idx - start_idx)
                    ELSE chunk_mapping[idx]]
    /\ disk' = IF io \in {"index_fail", "index_torn"}
               THEN SavedIndex(disk, index_ntotal', io)
               ELSE SavedMapping(SavedIndex(disk, index_ntotal', io), chunk_mapping', io)
    /\ store_call' = [StoreCallIdle EXCEPT !.op = "add", !.file_path = file_path, !.arg = n,
                        !.ntotal = index_ntotal, !.io = io,
                        !.raised = (io # "ok"),
                        !.indices = IF io = "ok" THEN AddedIndices(index_ntotal, n) ELSE <<>>]
    /\ fetched' = FetchedIdle
    /\ response' = ResponseIdle
    /\ UNCHANGED <<embedded, classified, ollama, next_id, lookups, saves, threads, generation, learned_answers, cache_call, diversity, parsed>>

\* add_embeddings: n vectors and their n chunks of one file, both files written.
AddEmbeddings(file_path, n) == AddEmbeddingsIO(file_path, n, "ok")

\* Mutant of DeletedMapping: the entries of the file are removed.
DeletedMappingRemoving(mapping, file_path) ==
    [idx \in {p \in DOMAIN mapping : mapping[p].file_path # file_path} |-> mapping[idx]]

\* delete_by_file: flags every mapping entry of the file.
DeletedMapping(mapping, file_path) ==
    [idx \in DOMAIN mapping |->
        IF mapping[idx].file_path = file_path
        THEN [mapping[idx] EXCEPT !.deleted = TRUE]
        ELSE mapping[idx]]

\* The count delete_by_file returns: every entry of the file, flagged or not.
DeletedCount(mapping, file_path) ==
    Cardinality({idx \in DOMAIN mapping : mapping[idx].file_path = file_path})

\* delete_by_file with the outcome of its write: the entries are flagged in
\* memory, then save_mapping() runs.
DeleteByFileIO(file_path, io) ==
    /\ chunk_mapping' = DeletedMapping(chunk_mapping, file_path)
    /\ disk' = SavedMapping(disk, chunk_mapping', io)
    /\ store_call' = [StoreCallIdle EXCEPT !.op = "delete", !.file_path = file_path,
                        !.ntotal = index_ntotal, !.io = io,
                        !.raised = (io # "ok"),
                        !.count = IF io = "ok" THEN DeletedCount(chunk_mapping, file_path) ELSE 0]
    /\ fetched' = FetchedIdle
    /\ response' = ResponseIdle
    /\ UNCHANGED <<embedded, classified, ollama, next_id, lookups, saves, threads, generation, index_ntotal, learned_answers, cache_call, diversity, parsed>>

\* delete_by_file, the mapping file written.
DeleteByFile(file_path) == DeleteByFileIO(file_path, "ok")

\* A restart of the process (a crash included): the calls in progress are
\* gone, _index and _chunk_mapping start out empty and the
\* first get_index() / get_chunk_mapping() load the files.  A partly written
\* file cannot be read (read_index and json.load raise), so nothing is loaded
\* from a torn pair of files.
Restart ==
    /\ ~disk.index_torn
    /\ ~disk.mapping_torn
    /\ index_ntotal' = disk.index_ntotal
    /\ chunk_mapping' = disk.mapping
    /\ store_call' = [StoreCallIdle EXCEPT !.op = "restart", !.ntotal = disk.index_ntotal]
    /\ threads' = ThreadsIdle
    /\ fetched' = FetchedIdle
    /\ response' = ResponseIdle
    /\ UNCHANGED <<embedded, classified, ollama, next_id, lookups, saves, disk, generation, learned_answers, cache_call, diversity, parsed>>

\* ---- add_embeddings statement by statement, for calls that run in parallel.
\* The module keeps _index and _chunk_mapping in globals and takes no lock.
\* The file a thread ingests.
ThreadFile(t) == IF t = 1 THEN "file1.pdf" ELSE "file2.pdf"

\* Vectors of calls that have read start_idx and not yet added to the index.
PendingVectors ==
    LET n1 == IF threads[1].pc = "index_add" THEN threads[1].n ELSE 0
        n2 == IF threads[2].pc = "index_add" THEN threads[2].n ELSE 0
    IN  n1 + n2

\* Every step of a call in progress leaves these alone.
AddStepFrame ==
    /\ store_call' = StoreCallIdle
    /\ fetched' = FetchedIdle
    /\ response' = ResponseIdle
    /\ UNCHANGED <<embedded, classified, ollama, next_id, lookups, saves, generation, learned_answers, cache_call, diversity, parsed>>

\* index = get_index(); mapping = get_chunk_mapping(); start_idx = index.ntotal
AddCall(t, n) ==
    /\ threads[t].pc = "idle"
    /\ threads' = [threads EXCEPT ![t] = [ThreadIdle EXCEPT !.pc = "index_add",
                        !.file_path = ThreadFile(t), !.n = n, !.start_idx = index_ntotal]]
    /\ UNCHANGED <<index_ntotal, chunk_mapping, disk>>
    /\ AddStepFrame

\* index.add(embeddings)
AddToIndex(t) ==
    /\ threads[t].pc = "index_add"
    /\ index_ntotal' = index_ntotal + threads[t].n
    /\ threads' = [threads EXCEPT ![t].pc = "map"]
    /\ UNCHANGED <<chunk_mapping, disk>>
    /\ AddStepFrame

\* One iteration of the loop: mapping[start_idx + i] = chunk_copy
AddMapChunk(t) ==
    /\ threads[t].pc = "map"
    /\ LET idx == threads[t].start_idx + threads[t].i
       IN  chunk_mapping' =
              [p \in (DOMAIN chunk_mapping) \cup {idx} |->
                  IF p = idx THEN NewChunk(threads[t].file_path, threads[t].i)
                  ELSE chunk_mapping[p]]
    /\ threads' = [threads EXCEPT ![t].i = @ + 1,
                       ![t].pc = IF threads[t].i + 1 = threads[t].n THEN "save_index" ELSE "map"]
    /\ UNCHANGED <<index_ntotal, disk>>
    /\ AddStepFrame

\* save_index()
AddSaveIndex(t) ==
    /\ threads[t].pc = "save_index"
    /\ disk' = SavedIndex(disk, index_ntotal, "ok")
    /\ threads' = [threads EXCEPT ![t].pc = "save_mapping"]
    /\ UNCHANGED <<index_ntotal, chunk_mapping>>
    /\ AddStepFrame

\* save_mapping()
AddSaveMapping(t) ==
    /\ threads[t].pc = "save_mapping"
    /\ disk' = SavedMapping(disk, chunk_mapping, "ok")
    /\ threads' = [threads EXCEPT ![t].pc = "return"]
    /\ UNCHANGED <<index_ntotal, chunk_mapping>>
    /\ AddStepFrame

\* return indices
AddReturn(t) ==
    /\ threads[t].pc = "return"
    /\ threads' = [threads EXCEPT ![t].pc = "done",
                       ![t].indices = AddedIndices(threads[t].start_idx, threads[t].n)]
    /\ UNCHANGED <<index_ntotal, chunk_mapping, disk>>
    /\ AddStepFrame

\* get_chunks_by_indices: the mapping entries of the indices, in index order,
\* skipping the indices the mapping does not hold.
RECURSIVE ChunksByIndices(_, _)
ChunksByIndices(mapping, indices) ==
    IF indices = <<>> THEN <<>>
    ELSE LET idx  == Head(indices)
             rest == ChunksByIndices(mapping, Tail(indices))
         IN  IF idx \in DOMAIN mapping THEN <<mapping[idx]>> \o rest ELSE rest

GetChunksByIndices(indices) ==
    /\ fetched' = [called |-> TRUE, indices |-> indices,
                   chunks |-> ChunksByIndices(chunk_mapping, indices)]
    /\ store_call' = StoreCallIdle
    /\ UNCHANGED <<embedded, classified, ollama, next_id, lookups, saves, threads, disk, generation, index_ntotal, chunk_mapping, learned_answers, cache_call, response, diversity, parsed>>

\* Mutant of SearchRaises: the k == 0 early return is missing.
SearchRaisesNoGuard(ntotal, k) == Min(k, ntotal) <= 0

\* search_vectors raises when index.search is reached with a k that is not
\* positive (FAISS rejects it); k = min(k, ntotal) = 0 returns before the search.
SearchRaises(ntotal, k) == Min(k, ntotal) < 0

\* search_vectors: positions of the k nearest vectors, nearest first.  The
\* distances depend on the vectors, so any k distinct positions can come back.
SearchResults(ntotal, k) ==
    LET kk == Min(k, ntotal)
    IN  IF kk = 0 THEN {<<>>} ELSE InjSeqs(0..(ntotal - 1), kk)

\* search_vectors(query_embedding, k) called on its own.
SearchVectors(k) ==
    /\ \/ /\ SearchRaises(index_ntotal, k)
          /\ store_call' = [StoreCallIdle EXCEPT !.op = "search", !.arg = k,
                              !.ntotal = index_ntotal, !.raised = TRUE]
       \/ /\ ~SearchRaises(index_ntotal, k)
          /\ \E indices \in SearchResults(index_ntotal, k) :
                store_call' = [StoreCallIdle EXCEPT !.op = "search", !.arg = k,
                                  !.ntotal = index_ntotal, !.indices = indices]
    /\ fetched' = FetchedIdle
    /\ response' = ResponseIdle
    /\ UNCHANGED <<embedded, classified, ollama, next_id, lookups, saves, threads, disk, generation, index_ntotal, chunk_mapping, learned_answers, cache_call, diversity, parsed>>

\* ============================================================== reranker
DivFiles == Files \cup {"file3.pdf"}

\* file_paths = list(file_groups.keys()): distinct files in first-appearance order.
RECURSIVE FilePaths(_)
FilePaths(chunks) ==
    IF chunks = <<>> THEN <<>>
    ELSE LET front == FilePaths(SubSeq(chunks, 1, Len(chunks) - 1))
             fp    == chunks[Len(chunks)].file_path
         IN  IF \E i \in 1..Len(front) : front[i] = fp THEN front
             ELSE Append(front, fp)

\* Mutant of FileGroup: the group is built in reverse order.
RECURSIVE ReverseSeq(_)
ReverseSeq(seq) ==
    IF seq = <<>> THEN <<>> ELSE Append(ReverseSeq(Tail(seq)), Head(seq))

FileGroupReversed(chunks, file_path) ==
    LET Same(c) == c.file_path = file_path IN ReverseSeq(SelectSeq(chunks, Same))

\* file_groups[file_path]: the chunks of one file, in input order.
FileGroup(chunks, file_path) ==
    LET Same(c) == c.file_path = file_path IN SelectSeq(chunks, Same)

\* The for-loop over file_paths of one round, from file number i on.
\* st = [result, per_file_count, file_positions, added_in_round].
RECURSIVE DiversityRound(_, _, _, _, _)
DiversityRound(chunks, max_chunks, max_per_file, st, i) ==
    LET file_paths == FilePaths(chunks)
    IN  IF i > Len(file_paths) THEN st
        ELSE IF Len(st.result) >= max_chunks THEN st
        ELSE LET fp    == file_paths[i]
                 group == FileGroup(chunks, fp)
             IN  IF /\ st.per_file_count[fp] < max_per_file
                    /\ st.file_positions[fp] < Len(group)
                 THEN DiversityRound(chunks, max_chunks, max_per_file,
                        [result          |-> Append(st.result, group[st.file_positions[fp] + 1]),
                         per_file_count  |-> [st.per_file_count EXCEPT ![fp] = @ + 1],
                         file_positions  |-> [st.file_positions EXCEPT ![fp] = @ + 1],
                         added_in_round  |-> TRUE],
                        i + 1)
                 ELSE DiversityRound(chunks, max_chunks, max_per_file, st, i + 1)

\* The while-loop: rounds until max_chunks is reached or a round adds nothing.
RECURSIVE DiversityLoop(_, _, _, _)
DiversityLoop(chunks, max_chunks, max_per_file, st) ==
    IF Len(st.result) >= max_chunks THEN st.result
    ELSE LET after == DiversityRound(chunks, max_chunks, max_per_file,
                                     [st EXCEPT !.added_in_round = FALSE], 1)
         IN  IF ~after.added_in_round THEN after.result
             ELSE DiversityLoop(chunks, max_chunks, max_per_file, after)

EnsureFileDiversity(chunks, max_chunks, max_per_file) ==
    IF chunks = <<>> THEN <<>>
    ELSE LET file_paths == FilePaths(chunks)
         IN  IF Len(file_paths) = 1
             THEN PySlicePrefix(chunks, max_chunks)
             ELSE DiversityLoop(chunks, max_chunks, max_per_file,
                    [result         |-> <<>>,
                     per_file_count |-> [fp \in DivFiles |-> 0],
                     file_positions |-> [fp \in DivFiles |-> 0],
                     added_in_round |-> FALSE])

\* A candidate list as the reranker sees it: the text identifies the candidate.
Candidates(files) ==
    [i \in 1..Len(files) |-> [file_path |-> files[i], text |-> i]]

DiversityIdle == [called |-> FALSE, chunks |-> <<>>, max_chunks |-> 0,
                  max_per_file |-> 0, result |-> <<>>]

CallDiversity ==
    /\ ~diversity.called
    /\ diversity' = [diversity EXCEPT
                        !.called = TRUE,
                        !.result = EnsureFileDiversity(diversity.chunks,
                                       diversity.max_chunks, diversity.max_per_file)]
    /\ UNCHANGED <<embedded, classified, ollama, next_id, lookups, saves, threads, disk, generation, store_call, index_ntotal, chunk_mapping, fetched, learned_answers, cache_call, response, parsed>>

\* ====================================================== confidence parser
\* A generation response as the parser's patterns see it: the field keyword
\* (matched case-insensitively), whitespace, a minus sign, decimal digits.
Digits == {"0", "1", "5"}

Whitespace == {" "}

Tokens == {"CONFIDENCE:", " ", "-"} \cup Digits

DigitValue(d) == CASE d = "0" -> 0 [] d = "1" -> 1 [] d = "5" -> 5

\* \s* from position i: the first position at or after i that holds no whitespace.
RECURSIVE SkipWhitespace(_, _)
SkipWhitespace(text, i) ==
    IF i <= Len(text) /\ text[i] \in Whitespace THEN SkipWhitespace(text, i + 1) ELSE i

\* (\d+) from position i: the position after the longest run of digits.
RECURSIVE SkipDigits(_, _)
SkipDigits(text, i) ==
    IF i <= Len(text) /\ text[i] \in Digits THEN SkipDigits(text, i + 1) ELSE i

\* int(group(1)) of the digits text[i..j-1].
RECURSIVE IntOf(_, _, _)
IntOf(text, i, j) ==
    IF j <= i THEN 0 ELSE 10 * IntOf(text, i, j - 1) + DigitValue(text[j - 1])

\* CONFIDENCE:\s*(\d+) matches with the keyword at position i.
ConfidenceMatchesAt(text, i) ==
    /\ i \in 1..Len(text)
    /\ text[i] = "CONFIDENCE:"
    /\ LET d == SkipWhitespace(text, i + 1) IN SkipDigits(text, d) > d

\* re.search: the leftmost match, 0 when the pattern matches nowhere.
ConfidenceMatch(text) ==
    IF \E i \in 1..Len(text) : ConfidenceMatchesAt(text, i)
    THEN CHOOSE i \in 1..Len(text) :
            /\ ConfidenceMatchesAt(text, i)
            /\ \A j \in 1..(i - 1) : ~ConfidenceMatchesAt(text, j)
    ELSE 0

\* The number captured by the match.
ConfidenceGroup(text, i) ==
    LET d == SkipWhitespace(text, i + 1) IN IntOf(text, d, SkipDigits(text, d))

DefaultConfidence == 50

\* parse_confidence_response, the confidence_score of its result.
ParseConfidence(text) ==
    LET m == ConfidenceMatch(text)
    IN  IF m # 0 THEN Min(100, Max(0, ConfidenceGroup(text, m)))
        ELSE DefaultConfidence

ParsedIdle == [called |-> FALSE, text |-> <<>>, confidence_score |-> 0]

CallParse ==
    /\ ~parsed.called
    /\ parsed' = [parsed EXCEPT !.called = TRUE,
                                !.confidence_score = ParseConfidence(parsed.text)]
    /\ UNCHANGED <<embedded, classified, ollama, next_id, lookups, saves, threads, disk, generation, store_call, index_ntotal, chunk_mapping, fetched, learned_answers, cache_call, response, diversity>>

\* ================================================== learned-answer cache
\* Questions are strings of characters.
UpperCase == <<"A","B","C","D","E","F","G","H","I","J","K","L","M",
               "N","O","P","Q","R","S","T","U","V","W","X","Y","Z">>

LowerCase == <<"a","b","c","d","e","f","g","h","i","j","k","l","m",
               "n","o","p","q","r","s","t","u","v","w","x","y","z">>

StripChars == {" ", "\t", "\n"}

\* str.lower(), character by character.
LowerChar(c) ==
    IF \E i \in 1..26 : UpperCase[i] = c
    THEN LowerCase[CHOOSE i \in 1..26 : UpperCase[i] = c]
    ELSE c

StrLower(str) == [i \in 1..Len(str) |-> LowerChar(str[i])]

\* str.strip(): drops the leading and the trailing whitespace.
RECURSIVE LStrip(_)
LStrip(str) ==
    IF str # <<>> /\ Head(str) \in StripChars THEN LStrip(Tail(str)) ELSE str

RECURSIVE RStrip(_)
RStrip(str) ==
    IF str # <<>> /\ str[Len(str)] \in StripChars
    THEN RStrip(SubSeq(str, 1, Len(str) - 1)) ELSE str

StrStrip(str) == RStrip(LStrip(str))

\* question.lower().strip(): the key of a question.
QuestionLower(question) == StrStrip(StrLower(question))

\* "What is Photosynthesis?"
QCapital == <<"W","h","a","t"," ","i","s"," ","P","h","o","t","o","s","y","n","t","h","e","s","i","s","?">>

\* "what is photosynthesis"
QPlain == <<"w","h","a","t"," ","i","s"," ","p","h","o","t","o","s","y","n","t","h","e","s","i","s">>

\* "  What Is Photosynthesis\n"
QPadded == <<" "," ","W","h","a","t"," ","I","s"," ","P","h","o","t","o","s","y","n","t","h","e","s","i","s","\n">>

Questions == {QCapital, QPlain, QPadded}

\* "": QueryRequest.question is any str, the empty one included.
QEmpty == <<>>

\* The questions a query request can carry.
RequestQuestions == Questions \cup {QEmpty}

\* question.lower().strip() of every question, computed once.
QuestionKey == [q \in RequestQuestions |-> QuestionLower(q)]

Answers == {"answer 1", "answer 2"}

\* get_learned_collection: the collection, None when MONGODB_URI is unset or
\* the connection fails; an operation on the collection may raise.
DbModes == {"ok", "unconfigured", "error"}

\* collection.find_one({"question_lower": key}): number of the first document
\* with the key, 0 when there is none.
FindOne(coll, key) ==
    IF \E i \in 1..Len(coll) : coll[i].question_lower = key
    THEN CHOOSE i \in 1..Len(coll) :
            /\ coll[i].question_lower = key
            /\ \A j \in 1..(i - 1) : coll[j].question_lower # key
    ELSE 0

\* Mutant of SearchLearnedAnswer: the lookup key is trimmed but not lower-cased.
SearchLearnedAnswerNoLower(coll, question, db) ==
    IF db = "ok" THEN FindOne(coll, StrStrip(question)) ELSE 0

\* search_learned_answer: the number of the document it returns (0 for None).
SearchLearnedAnswer(coll, question, db) ==
    IF db = "ok" THEN FindOne(coll, QuestionKey[question]) ELSE 0

\* Mutant of AccessedCollection: a hit consumes the record it returns.
AccessedCollectionConsuming(coll, i) ==
    IF i = 0 THEN coll ELSE SubSeq(coll, 1, i - 1) \o SubSeq(coll, i + 1, Len(coll))

\* The update_one of a lookup hit: $inc access_count (and $set last_accessed).
AccessedCollection(coll, i) ==
    IF i = 0 THEN coll ELSE [coll EXCEPT ![i].access_count = @ + 1]

\* The document save_learned_answer builds.
LearnedDoc(question, answer, confidence_score) ==
    [question         |-> question,
     question_lower   |-> QuestionKey[question],
     answer           |-> answer,
     confidence_score |-> confidence_score,
     source           |-> "internet",
     access_count     |-> 1]

\* Mutant of UpsertedCollection: insert_one instead of an upsert.
UpsertedCollectionInsertOnly(coll, doc) == Append(coll, doc)

\* update_one({"question_lower": key}, {"$set": doc}, upsert=True).
UpsertedCollection(coll, doc) ==
    LET i == FindOne(coll, doc.question_lower)
    IN  IF i = 0 THEN Append(coll, doc) ELSE [coll EXCEPT ![i] = doc]

\* save_learned_answer: the collection afterwards, and the value it returns.
SavedCollection(coll, question, answer, confidence_score, db) ==
    IF db = "ok" THEN UpsertedCollection(coll, LearnedDoc(question, answer, confidence_score))
    ELSE coll

SaveResult(db) == db = "ok"

\* delete_one({"question_lower": key}): removes the first document with the key.
DeletedCollection(coll, question, db) ==
    LET i == FindOne(coll, QuestionKey[question])
    IN  IF db = "ok" /\ i # 0
        THEN SubSeq(coll, 1, i - 1) \o SubSeq(coll, i + 1, Len(coll))
        ELSE coll

\* What get_db() does in a storage function.  The modes of DbModes, in which
\* it returns, and "client_error": MongoClient(MONGODB_URI) raises an exception
\* that is not a ConnectionFailure (a URI the driver rejects, a failed SRV
\* lookup).  get_db catches ConnectionFailure only, and the storage functions
\* call get_learned_collection() before their try block.
ClientModes == DbModes \cup {"client_error"}

\* The exception of get_db() leaves the storage function.
StorageRaises(db) == db = "client_error"

\* access_count is the counter of the matched document as the call found it;
\* db is the mode of the store during the call.
CacheIdle == [op |-> "none", question |-> <<>>, answer |-> "", confidence_score |-> 0,
              access_count |-> 0, matched |-> FALSE, result |-> FALSE,
              db |-> "ok", raised |-> FALSE]

\* Confidence scores a caller of the storage functions passes.
SavedConfidences == {90, 92}

\* save_learned_answer(question, answer, confidence_score)
SaveLearnedAnswer(question, answer, confidence_score, db) ==
    /\ learned_answers' = SavedCollection(learned_answers, question, answer, confidence_score, db)
    /\ cache_call' = [op |-> "save", question |-> question, answer |-> answer,
                      confidence_score |-> confidence_score,
                      access_count |-> LET i == FindOne(learned_answers, QuestionKey[question])
                                       IN  IF i = 0 THEN 0 ELSE learned_answers[i].access_count,
                      matched |-> FindOne(learned_answers, QuestionKey[question]) # 0,
                      result |-> SaveResult(db),
                      db |-> db, raised |-> StorageRaises(db)]
    /\ UNCHANGED <<embedded, classified, ollama, next_id, lookups, saves, threads, disk, generation, store_call, index_ntotal, chunk_mapping, fetched, response, diversity, parsed>>

\* search_learned_answer(question): returns the document as found.
LookupLearnedAnswer(question, db) ==
    LET i == SearchLearnedAnswer(learned_answers, question, db)
    IN  /\ i # 0 => learned_answers[i].access_count < MaxAccess
        /\ learned_answers' = AccessedCollection(learned_answers, i)
        /\ cache_call' = [op |-> "lookup", question |-> question,
                          answer |-> IF i = 0 THEN "" ELSE learned_answers[i].answer,
                          confidence_score |-> IF i = 0 THEN 0 ELSE learned_answers[i].confidence_score,
                          access_count |-> IF i = 0 THEN 0 ELSE learned_answers[i].access_count,
                          matched |-> i # 0,
                          result |-> i # 0,
                          db |-> db, raised |-> StorageRaises(db)]
        /\ UNCHANGED <<embedded, classified, ollama, next_id, lookups, saves, threads, disk, generation, store_call, index_ntotal, chunk_mapping, fetched, response, diversity, parsed>>

\* delete_learned_answer(question): returns deleted_count > 0.
DeleteLearnedAnswer(question, db) ==
    /\ learned_answers' = DeletedCollection(learned_answers, question, db)
    /\ cache_call' = [op |-> "delete", question |-> question, answer |-> "",
                      confidence_score |-> 0, access_count |-> 0,
                      matched |-> FindOne(learned_answers, QuestionKey[question]) # 0,
                      result |-> learned_answers' # learned_answers,
                      db |-> db, raised |-> StorageRaises(db)]
    /\ UNCHANGED <<embedded, classified, ollama, next_id, lookups, saves, threads, disk, generation, store_call, index_ntotal, chunk_mapping, fetched, response, diversity, parsed>>

\* ---- save_learned_answer from clients that run in parallel (handlers of
\* several server processes on one MongoDB server).  The collection has no
\* unique index on question_lower, so the server runs an upsert as a query
\* for the key followed by an update of the document found or an insert of a
\* new one; each of the two is atomic, the pair is not.
Clients == {1, 2}

SaveIdle == [pc |-> "idle", doc |-> <<>>, found |-> 0, result |-> FALSE]

SavesIdle == [c \in Clients |-> SaveIdle]

\* The document of a save with its created_at and last_accessed; the instant
\* of a call is written as the number of the calling client (0: an earlier call).
StampedDoc(question, answer, confidence_score, stamp) ==
    [question         |-> question,
     question_lower   |-> QuestionKey[question],
     answer           |-> answer,
     confidence_score |-> confidence_score,
     source           |-> "internet",
     access_count     |-> 1,
     created_at       |-> stamp,
     last_accessed    |-> stamp]

\* Every step of a save in progress leaves these alone.
SaveStepFrame ==
    /\ cache_call' = CacheIdle
    /\ UNCHANGED <<embedded, classified, ollama, next_id, lookups, index_ntotal, chunk_mapping, fetched, store_call, disk, threads,
                   response, diversity, parsed, generation>>

\* save_learned_answer: the collection is there, doc is built.
SaveCall(c, question, answer, confidence_score) ==
    /\ saves[c].pc = "idle"
    /\ saves' = [saves EXCEPT ![c] = [SaveIdle EXCEPT !.pc = "query",
                     !.doc = StampedDoc(question, answer, confidence_score, c)]]
    /\ UNCHANGED learned_answers
    /\ SaveStepFrame

\* update_one(..., upsert=True), first half: the server looks for the key.
UpsertQuery(c) ==
    /\ saves[c].pc = "query"
    /\ saves' = [saves EXCEPT ![c].pc = "write",
                     ![c].found = FindOne(learned_answers, saves[c].doc.question_lower)]
    /\ UNCHANGED learned_answers
    /\ SaveStepFrame

\* update_one(..., upsert=True), second half: $set of every field of doc on
\* the document found, or the insert of doc when none was found.
UpsertWrite(c) ==
    /\ saves[c].pc = "write"
    /\ learned_answers' =
          IF saves[c].found = 0 THEN Append(learned_answers, saves[c].doc)
          ELSE [learned_answers EXCEPT ![saves[c].found] = saves[c].doc]
    /\ saves' = [saves EXCEPT ![c].pc = "return"]
    /\ SaveStepFrame

\* return True
SaveReturn(c) ==
    /\ saves[c].pc = "return"
    /\ saves' = [saves EXCEPT ![c].pc = "done", ![c].result = TRUE]
    /\ UNCHANGED learned_answers
    /\ SaveStepFrame

\* ---- search_learned_answer from clients that run in parallel with saves and
\* forgets of the question.  find_one and update_one are two commands: each
\* is atomic on the server, the pair is not.  Documents carry the _id the
\* server gave them on insert; the instant of a call is the number of the
\* calling client (0: an earlier call, 3: a save of another client).
MaxIds == 3

LookupIdle == [pc |-> "idle", hit |-> FALSE, result |-> <<>>,
               stored_before |-> 0, stored_after |-> 0]

LookupsIdle == [c \in Clients |-> LookupIdle]

\* A document as it is stored: the fields of doc and its _id.
WithId(doc, id) ==
    [f \in DOMAIN doc \cup {"_id"} |-> IF f = "_id" THEN id ELSE doc[f]]

\* The number of the document with an _id (0: none).
FindById(coll, id) ==
    IF \E i \in 1..Len(coll) : coll[i]._id = id
    THEN CHOOSE i \in 1..Len(coll) : coll[i]._id = id
    ELSE 0

\* update_one({"_id": id}, {"$inc": {"access_count": 1},
\*                          "$set": {"last_accessed": now}}).
IncrementedById(coll, id, stamp) ==
    LET j == FindById(coll, id)
    IN  IF j = 0 THEN coll
        ELSE [coll EXCEPT ![j].access_count = @ + 1, ![j].last_accessed = stamp]

\* Every step of the clients of the collection leaves these alone.
LookupStepFrame ==
    /\ cache_call' = CacheIdle
    /\ UNCHANGED <<embedded, classified, ollama, index_ntotal, chunk_mapping, fetched, store_call, disk, threads,
                   response, diversity, parsed, generation, saves>>

\* result = collection.find_one({"question_lower": key})
LookupFind(c, question) ==
    LET i == FindOne(learned_answers, QuestionKey[question])
    IN  /\ lookups[c].pc = "idle"
        /\ lookups' = [lookups EXCEPT ![c] =
              IF i = 0 THEN [LookupIdle EXCEPT !.pc = "return"]
              ELSE [LookupIdle EXCEPT !.pc = "update", !.hit = TRUE,
                                      !.result = learned_answers[i]]]
        /\ UNCHANGED <<learned_answers, next_id>>
        /\ LookupStepFrame

\* if result: collection.update_one({"_id": result["_id"]}, ...)
LookupUpdate(c) ==
    LET j == FindById(learned_answers, lookups[c].result._id)
    IN  /\ lookups[c].pc = "update"
        /\ learned_answers' = IncrementedById(learned_answers, lookups[c].result._id, c)
        /\ lookups' = [lookups EXCEPT ![c].pc = "return",
              ![c].stored_before = IF j = 0 THEN 0 ELSE learned_answers[j].access_count,
              ![c].stored_after = IF j = 0 THEN 0 ELSE learned_answers'[j].access_count]
        /\ UNCHANGED next_id
        /\ LookupStepFrame

\* return result (the document find_one read), or return None
LookupReturn(c) ==
    /\ lookups[c].pc = "return"
    /\ lookups' = [lookups EXCEPT ![c].pc = "done"]
    /\ UNCHANGED <<learned_answers, next_id>>
    /\ LookupStepFrame

\* save_learned_answer of another client, its upsert as one command: $set of
\* doc on the document of the key (the _id stays), or the insert of doc under
\* a new _id.
LookupSave(question, answer, confidence_score) ==
    LET doc == StampedDoc(question, answer, confidence_score, 3)
        i == FindOne(learned_answers, doc.question_lower)
    IN  /\ i = 0 => next_id <= MaxIds
        /\ learned_answers' =
              IF i = 0 THEN Append(learned_answers, WithId(doc, next_id))
              ELSE [learned_answers EXCEPT ![i] = WithId(doc, learned_answers[i]._id)]
        /\ next_id' = IF i = 0 THEN next_id + 1 ELSE next_id
        /\ UNCHANGED lookups
        /\ LookupStepFrame

\* delete_learned_answer of another client: delete_one of the key.
LookupForget(question) ==
    /\ FindOne(learned_answers, QuestionKey[question]) # 0
    /\ learned_answers' = DeletedCollection(learned_answers, question, "ok")
    /\ UNCHANGED <<lookups, next_id>>
    /\ LookupStepFrame

\* ===================================================== generation provider
\* What the Groq chat completion does: it answers, or it raises an exception
\* whose message names a rate limit, or it raises any other exception.
CloudOutcomes == {"ok", "rate_limit", "error"}

\* `generation` holds one call: the entry point, the outcome of the cloud call
\* and the text it produced, the number of calls of the local backend, and the
\* kind of answer returned with its confidence.
GenerationIdle == [called |-> FALSE, fn |-> "", cloud |-> "ok", text |-> <<>>,
                   local_calls |-> 0, answer |-> "", confidence_score |-> 0]

\* generate_with_confidence: the parsed cloud response, or, from the except
\* clause, an error answer with confidence 0.
GenerateWithConfidence ==
    /\ ~generation.called
    /\ generation.fn = "generate_with_confidence"
    /\ generation' =
          IF generation.cloud = "ok"
          THEN [generation EXCEPT !.called = TRUE, !.answer = "cloud",
                                  !.confidence_score = ParseConfidence(generation.text)]
          ELSE [generation EXCEPT !.called = TRUE, !.answer = "error",
                                  !.confidence_score = 0]
    /\ UNCHANGED <<embedded, classified, ollama, next_id, lookups, saves, threads, disk, store_call, index_ntotal, chunk_mapping, fetched, learned_answers,
                   cache_call, response, diversity, parsed>>

\* generate_with_groq: the cloud text; on an exception whose message contains
\* "rate_limit" the string generate_with_ollama returns; else an error string.
\* Its result is a bare string and carries no confidence.
GenerateWithGroq ==
    /\ ~generation.called
    /\ generation.fn = "generate_with_groq"
    /\ generation' =
          CASE generation.cloud = "ok" ->
                 [generation EXCEPT !.called = TRUE, !.answer = "cloud"]
            [] generation.cloud = "rate_limit" ->
                 [generation EXCEPT !.called = TRUE, !.answer = "local", !.local_calls = 1]
            [] OTHER ->
                 [generation EXCEPT !.called = TRUE, !.answer = "error"]
    /\ UNCHANGED <<embedded, classified, ollama, next_id, lookups, saves, threads, disk, store_call, index_ntotal, chunk_mapping, fetched, learned_answers,
                   cache_call, response, diversity, parsed>>

\* ---- generate_with_ollama: the retry loop around one HTTP request per
\* attempt.  What a request does: status 200 with a response text, status
\* 500 whose text names CUDA or memory, any other status 500, another status,
\* or requests raises ConnectionError, Timeout or another exception.
max_retries == 3

retry_delay == 2

OllamaOutcomes ==
    {"200", "500_memory", "500_other", "status_other",
     "ConnectionError", "Timeout", "Exception"}

OllamaTexts == {"", "an answer"}

OllamaMaxTokens == {500, 1000}

OllamaIdle == [pc |-> "idle", max_tokens |-> 0, attempt |-> 0,
               outcomes |-> <<>>, sleeps |-> <<>>, result |-> "none"]

OllamaFrame ==
    UNCHANGED <<embedded, classified, index_ntotal, chunk_mapping, fetched, learned_answers, cache_call,
                response, diversity, parsed, store_call, generation, disk, threads,
                saves, lookups, next_id>>

\* except Timeout: if attempt < max_retries - 1: sleep and continue.
TimeoutRetried(attempt) == attempt < max_retries - 1

\* The call: for attempt in range(max_retries), before the first attempt.
OllamaCall(max_tokens) ==
    /\ ollama.pc = "idle"
    /\ ollama' = [OllamaIdle EXCEPT !.pc = "attempt", !.max_tokens = max_tokens]
    /\ OllamaFrame

\* One pass of the loop body with the outcome of its request; attempt is the
\* loop variable (0, 1, 2).  A pass either returns or sleeps and continues,
\* and the loop falls through to the last return after max_retries passes.
OllamaAttempt(outcome, text) ==
    LET attempt == ollama.attempt
        seen == Append(ollama.outcomes, outcome)
        Return(s) == [ollama EXCEPT !.pc = "done", !.outcomes = seen, !.result = s]
        Continue(delay) ==
            IF attempt + 1 < max_retries
            THEN [ollama EXCEPT !.outcomes = seen, !.attempt = attempt + 1,
                                !.sleeps = Append(@, delay)]
            ELSE [ollama EXCEPT !.pc = "done", !.outcomes = seen,
                                !.sleeps = Append(@, delay),
                                !.result = "Error: Failed after multiple retries. Please restart Ollama and try again."]
    IN  /\ ollama.pc = "attempt"
        /\ outcome = "200" \/ text = ""
        /\ ollama' =
              CASE outcome = "200" -> Return(text)
                [] outcome = "500_memory" -> Continue(retry_delay * (attempt + 1))
                [] outcome = "500_other" ->
                     Return("Error: Ollama returned status 500. Please restart Ollama.")
                [] outcome = "status_other" ->
                     Return("Error: Ollama returned status 404")
                [] outcome = "ConnectionError" ->
                     Return("Error: Could not connect to Ollama. Make sure Ollama is running (ollama serve)")
                [] outcome = "Timeout" ->
                     IF TimeoutRetried(attempt) THEN Continue(retry_delay)
                     ELSE Return("Error: Ollama request timed out. The model might be overloaded.")
                [] OTHER -> Return("Error generating response: exception")
        /\ OllamaFrame

\* ====================================================== question classifier
\* Strings are sequences of characters; `sub in str` is StrContains.
StrContains(str, sub) ==
    \E i \in 0..(Len(str) - Len(sub)) : SubSeq(str, i + 1, i + Len(sub)) = sub

\* any(q in question_lower for q in cues)
AnyCue(cues, question_lower) ==
    \E n \in 1..Len(cues) : StrContains(question_lower, cues[n])

\* ['what is', 'what are', 'define', 'meaning of', 'definition of']
DefinitionCues ==
    <<<<"w", "h", "a", "t", " ", "i", "s">>,
      <<"w", "h", "a", "t", " ", "a", "r", "e">>,
      <<"d", "e", "f", "i", "n", "e">>,
      <<"m", "e", "a", "n", "i", "n", "g", " ", "o", "f">>,
      <<"d", "e", "f", "i", "n", "i", "t", "i", "o", "n", " ", "o", "f">>>>

\* ['how to', 'how do', 'how does', 'how can', 'steps to', 'process of', 'way to']
HowToCues ==
    <<<<"h", "o", "w", " ", "t", "o">>,
      <<"h", "o", "w", " ", "d", "o">>,
      <<"h", "o", "w", " ", "d", "o", "e", "s">>,
      <<"h", "o", "w", " ", "c", "a", "n">>,
      <<"s", "t", "e", "p", "s", " ", "t", "o">>,
      <<"p", "r", "o", "c", "e", "s", "s", " ", "o", "f">>,
      <<"w", "a", "y", " ", "t", "o">>>>

\* ['difference between', 'compare', 'vs', 'versus', 'differ from', 'contrast']
ComparisonCues ==
    <<<<"d", "i", "f", "f", "e", "r", "e", "n", "c", "e", " ", "b", "e", "t", "w", "e", "e", "n">>,
      <<"c", "o", "m", "p", "a", "r", "e">>,
      <<"v", "s">>,
      <<"v", "e", "r", "s", "u", "s">>,
      <<"d", "i", "f", "f", "e", "r", " ", "f", "r", "o", "m">>,
      <<"c", "o", "n", "t", "r", "a", "s", "t">>>>

\* ['example', 'give me', 'show me', 'demonstrate', 'instance of']
ExampleCues ==
    <<<<"e", "x", "a", "m", "p", "l", "e">>,
      <<"g", "i", "v", "e", " ", "m", "e">>,
      <<"s", "h", "o", "w", " ", "m", "e">>,
      <<"d", "e", "m", "o", "n", "s", "t", "r", "a", "t", "e">>,
      <<"i", "n", "s", "t", "a", "n", "c", "e", " ", "o", "f">>>>

\* ['list', 'types of', 'kinds of', 'categories', 'what are the']
ListCues ==
    <<<<"l", "i", "s", "t">>,
      <<"t", "y", "p", "e", "s", " ", "o", "f">>,
      <<"k", "i", "n", "d", "s", " ", "o", "f">>,
      <<"c", "a", "t", "e", "g", "o", "r", "i", "e", "s">>,
      <<"w", "h", "a", "t", " ", "a", "r", "e", " ", "t", "h", "e">>>>

\* ['explain', 'why', 'describe', 'tell me about', 'elaborate']
ExplanationCues ==
    <<<<"e", "x", "p", "l", "a", "i", "n">>,
      <<"w", "h", "y">>,
      <<"d", "e", "s", "c", "r", "i", "b", "e">>,
      <<"t", "e", "l", "l", " ", "m", "e", " ", "a", "b", "o", "u", "t">>,
      <<"e", "l", "a", "b", "o", "r", "a", "t", "e">>>>

\* Mutant of AnalyzeQuestionType: the question is trimmed but not lower-cased.
AnalyzeQuestionTypeNoLower(question) ==
    LET question_lower == StrStrip(question)
    IN
        IF AnyCue(DefinitionCues, question_lower) THEN "definition"
        ELSE IF AnyCue(HowToCues, question_lower) THEN "how_to"
        ELSE IF AnyCue(ComparisonCues, question_lower) THEN "comparison"
        ELSE IF AnyCue(ExampleCues, question_lower) THEN "example"
        ELSE IF AnyCue(ListCues, question_lower) THEN "list"
        ELSE IF AnyCue(ExplanationCues, question_lower) THEN "explanation"
        ELSE "other"

\* analyze_question_type(question)
AnalyzeQuestionType(question) ==
    LET question_lower == StrStrip(StrLower(question))
    IN
        IF AnyCue(DefinitionCues, question_lower) THEN "definition"
        ELSE IF AnyCue(HowToCues, question_lower) THEN "how_to"
        ELSE IF AnyCue(ComparisonCues, question_lower) THEN "comparison"
        ELSE IF AnyCue(ExampleCues, question_lower) THEN "example"
        ELSE IF AnyCue(ListCues, question_lower) THEN "list"
        ELSE IF AnyCue(ExplanationCues, question_lower) THEN "explanation"
        ELSE "other"

\* guidance_map of get_question_context
GuidanceMap ==
    [definition |->
        "Provide a clear, concise definition followed by an explanation. Use simple language and examples from the context if available.",
     how_to |->
        "Provide step-by-step instructions or explain the process clearly. Break down complex procedures into numbered steps. Include any prerequisites or important notes.",
     comparison |->
        "Highlight key similarities and differences in a structured way. Use a comparison format (e.g., \"X does... while Y does...\"). Be specific and reference the context.",
     example |->
        "Provide concrete, specific examples from the context. If multiple examples exist, choose the most relevant or illustrative one. Explain why the example demonstrates the concept.",
     list |->
        "Provide a clear, organized list. Use bullet points or numbering. Include brief explanations for each item if helpful.",
     explanation |->
        "Explain the concept thoroughly with reasoning. Break down complex ideas into digestible parts. Use analogies or examples from the context when helpful.",
     other |->
        "Answer the question comprehensively based on the context. Be clear, helpful, and educational in your response."]

\* get_question_context(question)
GetQuestionContext(question) ==
    LET q_type == AnalyzeQuestionType(question)
    IN  [type     |-> q_type,
         guidance |-> IF q_type \in DOMAIN GuidanceMap THEN GuidanceMap[q_type]
                      ELSE GuidanceMap.other]

\* Questions put together from two phrases: one cue of each group, in lower,
\* upper or mixed case, a cue inside a longer word, and phrases without a cue.
Phrases ==
    {<<"W", "h", "a", "t", " ", "i", "s">>,
     <<"h", "o", "w", " ", "t", "o">>,
     <<"C", "O", "M", "P", "A", "R", "E">>,
     <<"g", "i", "v", "e", " ", "m", "e">>,
     <<"l", "i", "s", "t">>,
     <<"W", "h", "y">>,
     <<"t", "h", "e", " ", "s", "p", "e", "c", "i", "a", "l", "i", "s", "t", "s">>,
     <<"p", "h", "o", "t", "o", "s", "y", "n", "t", "h", "e", "s", "i", "s">>,
     <<"w", "h", "a", "t", " ", "a", "r", "e", " ", "t", "h", "e">>,
     <<" ">>}

ClassifiedQuestions == {a \o <<" ">> \o b \o <<"?">> : a, b \in Phrases} \cup {<<>>}

ClassifiedIdle == [called |-> FALSE, question |-> <<>>, type |-> "", guidance |-> ""]

\* One call of get_question_context on the question drawn at the start.
CallClassify ==
    /\ ~classified.called
    /\ classified' = [classified EXCEPT
                         !.called = TRUE,
                         !.type = GetQuestionContext(classified.question).type,
                         !.guidance = GetQuestionContext(classified.question).guidance]
    /\ UNCHANGED <<embedded, index_ntotal, chunk_mapping, fetched, learned_answers, cache_call,
                   response, diversity, parsed, store_call, generation, disk, threads,
                   saves, lookups, next_id, ollama>>

\* ============================================================== embedder
\* The dimension of the vectors of each backend: Cohere embed-english-v3.0
\* and the local BAAI/bge-base-en model.
CLOUD_EMBEDDING_DIM == 1024

LOCAL_EMBEDDING_DIM == 768

\* EMBEDDING_DIM = 1024 if USE_CLOUD_EMBEDDINGS else LOCAL_EMBEDDING_DIM: the
\* dimension get_index() creates the index with.
EMBEDDING_DIM(use_cloud) ==
    IF use_cloud THEN CLOUD_EMBEDDING_DIM ELSE LOCAL_EMBEDDING_DIM

\* What client.embed does: it answers, or it raises a rate-limit error or
\* another exception; "unused" when the configuration is local.
CohereOutcomes == {"ok", "rate_limit", "error"}

\* get_embeddings / get_query_embeddings: the dimension of the vectors they
\* return; every exception of the cloud backend falls back to
\* get_local_embeddings.
EmbeddingsDim(use_cloud, cohere) ==
    IF use_cloud /\ cohere = "ok" THEN CLOUD_EMBEDDING_DIM ELSE LOCAL_EMBEDDING_DIM

EmbeddedIdle == [use_cloud |-> FALSE, op |-> "none", cohere |-> "unused", n |-> 0,
                 dim |-> 0, index_d |-> 0, handed |-> FALSE, raised |-> FALSE]

EmbedFrame ==
    /\ store_call' = StoreCallIdle
    /\ fetched' = FetchedIdle
    /\ response' = ResponseIdle
    /\ UNCHANGED <<learned_answers, cache_call, diversity, parsed, generation, threads,
                   saves, lookups, next_id, ollama, classified>>

\* process_and_store, steps 4 and 5: get_embeddings(texts) and
\* add_embeddings(embeddings, chunks) for n chunks of a file.  index.add
\* raises on vectors of another dimension than the index's, before anything
\* is changed; the except clause of process_and_store reports the error.
EmbedAndAdd(file_path, n, cohere) ==
    LET dim == EmbeddingsDim(embedded.use_cloud, cohere)
        d == EMBEDDING_DIM(embedded.use_cloud)
    IN  /\ embedded.use_cloud \/ cohere = "unused"
        /\ ~embedded.use_cloud \/ cohere \in CohereOutcomes
        /\ embedded' = [embedded EXCEPT !.op = "add", !.cohere = cohere, !.n = n,
                            !.dim = dim, !.index_d = d, !.handed = TRUE,
                            !.raised = (dim # d)]
        /\ IF dim = d
           THEN /\ index_ntotal' = index_ntotal + n
                /\ chunk_mapping' =
                      [idx \in (DOMAIN chunk_mapping) \cup (index_ntotal..(index_ntotal + n - 1)) |->
                          IF idx \in index_ntotal..(index_ntotal + n - 1)
                          THEN NewChunk(file_path, idx - index_ntotal)
                          ELSE chunk_mapping[idx]]
                /\ disk' = SavedMapping(SavedIndex(disk, index_ntotal', "ok"),
                                        chunk_mapping', "ok")
           ELSE UNCHANGED <<index_ntotal, chunk_mapping, disk>>
        /\ EmbedFrame

\* smart_query, step 2: get_query_embeddings(question) and
\* search_vectors(question_embedding, k).  An empty index returns before
\* index.search; otherwise index.search raises on a vector of another
\* dimension than the index's.
EmbedAndSearch(k, cohere) ==
    LET dim == EmbeddingsDim(embedded.use_cloud, cohere)
        d == EMBEDDING_DIM(embedded.use_cloud)
        handed == Min(k, index_ntotal) # 0
    IN  /\ embedded.use_cloud \/ cohere = "unused"
        /\ ~embedded.use_cloud \/ cohere \in CohereOutcomes
        /\ embedded' = [embedded EXCEPT !.op = "search", !.cohere = cohere, !.n = 1,
                            !.dim = dim, !.index_d = d, !.handed = handed,
                            !.raised = (handed /\ dim # d)]
        /\ UNCHANGED <<index_ntotal, chunk_mapping, disk>>
        /\ EmbedFrame

\* ====================================================== query orchestrator
LOCAL_DB_THRESHOLD == 60

LEARNING_THRESHOLD == 90

TopKs == 0..MaxTopK

\* Confidence scores the local generation step returns (0: provider error).
LocalConfidences == {0, 45, 59, 60, 75}

\* Confidence scores the open-knowledge generation step returns.
InternetConfidences == {0, 85, 89, 90, 92}

\* Mutant of LearnedResponse: a hit still offers the internet search.
LearnedResponseOffering(question, learned, db) ==
    [ResponseIdle EXCEPT
        !.endpoint = "query", !.question = question, !.source = "learned",
        !.answer = learned.answer, !.confidence_score = learned.confidence_score,
        !.offer_internet = TRUE, !.store_ok = (db = "ok")]

\* smart_query, step 1: the response of a learned-answer hit.
LearnedResponse(question, learned, db) ==
    [ResponseIdle EXCEPT
        !.endpoint = "query", !.question = question, !.source = "learned",
        !.answer = learned.answer, !.confidence_score = learned.confidence_score,
        !.offer_internet = FALSE, !.store_ok = (db = "ok")]

\* smart_query: the HTTPException raised from the except clause.
ErrorResponse(question, cause, calls, db) ==
    [ResponseIdle EXCEPT
        !.endpoint = "query", !.question = question, !.error = cause,
        !.calls = calls, !.store_ok = (db = "ok")]

\* smart_query, step 3: no chunk came back from the index.
NoDocumentsResponse(question, db) ==
    [ResponseIdle EXCEPT
        !.endpoint = "query", !.question = question, !.source = "none",
        !.answer = "No documents have been uploaded yet.",
        !.confidence_score = 0, !.offer_internet = TRUE,
        !.calls = {"embed", "search"}, !.store_ok = (db = "ok")]

\* Mutant of OfferInternet: the threshold itself still offers the internet search.
OfferInternetInclusive(confidence) == confidence <= LOCAL_DB_THRESHOLD

\* offer_internet = confidence < LOCAL_DB_THRESHOLD
OfferInternet(confidence) == confidence < LOCAL_DB_THRESHOLD

\* smart_query, steps 3.5 to 4: the answer generated from the diversified chunks.
LocalResponse(question, chunks_data, top_k, confidence, db) ==
    [ResponseIdle EXCEPT
        !.endpoint = "query", !.question = question, !.source = "local_db",
        !.answer = "generated",
        !.confidence_score = confidence, !.generated = confidence,
        !.offer_internet = OfferInternet(confidence),
        !.context = EnsureFileDiversity(chunks_data, top_k, Max(3, top_k \div 2)),
        !.calls = {"embed", "search", "generate"}, !.store_ok = (db = "ok")]

\* smart_query(question, top_k)
SmartQuery(question, top_k) ==
    \E db \in DbModes :
        LET i == SearchLearnedAnswer(learned_answers, question, db)
        IN  \/ /\ i # 0
               /\ learned_answers[i].access_count < MaxAccess
               /\ learned_answers' = AccessedCollection(learned_answers, i)
               /\ response' = [LearnedResponse(question, learned_answers[i], db)
                                  EXCEPT !.top_k = top_k]
               /\ store_call' = StoreCallIdle
               /\ UNCHANGED <<embedded, classified, ollama, next_id, lookups, saves, threads, disk, generation, index_ntotal, chunk_mapping, fetched, cache_call, diversity, parsed>>
            \/ /\ i = 0
               /\ \/ response' = [ErrorResponse(question, "embedding", {"embed"}, db)
                                     EXCEPT !.top_k = top_k]
                  \/ /\ SearchRaises(index_ntotal, Min(top_k * 2, 40))
                     /\ response' = [ErrorResponse(question, "search", {"embed", "search"}, db)
                                        EXCEPT !.top_k = top_k,
                                               !.search_k = Min(top_k * 2, 40)]
                  \/ /\ ~SearchRaises(index_ntotal, Min(top_k * 2, 40))
                     /\ \E indices \in SearchResults(index_ntotal, Min(top_k * 2, 40)) :
                          LET chunks_data == ChunksByIndices(chunk_mapping, indices)
                          IN  IF chunks_data = <<>>
                              THEN response' = [NoDocumentsResponse(question, db)
                                                   EXCEPT !.top_k = top_k,
                                                          !.search_k = Min(top_k * 2, 40)]
                              ELSE \E confidence \in LocalConfidences :
                                      response' = [LocalResponse(question, chunks_data,
                                                                 top_k, confidence, db)
                                                      EXCEPT !.top_k = top_k,
                                                             !.search_k = Min(top_k * 2, 40)]
               /\ store_call' = StoreCallIdle
               /\ UNCHANGED <<embedded, classified, ollama, next_id, lookups, saves, threads, disk, generation, index_ntotal, chunk_mapping, fetched, learned_answers,
                              cache_call, diversity, parsed>>

\* Mutant of SaveAttempted: whatever the confidence, the answer is learned.
SaveAttemptedAlways(save_if_confident, confidence) == save_if_confident

\* Mutant of SaveAttempted: the threshold itself is not learned.
SaveAttemptedStrict(save_if_confident, confidence) ==
    save_if_confident /\ confidence > LEARNING_THRESHOLD

\* Whether internet_query calls save_learned_answer.
SaveAttempted(save_if_confident, confidence) ==
    save_if_confident /\ confidence >= LEARNING_THRESHOLD

\* internet_query(question, save_if_confident)
InternetQuery(question, save_if_confident) ==
    \E answer \in Answers, confidence \in InternetConfidences :
        /\ IF SaveAttempted(save_if_confident, confidence)
           THEN \E db \in DbModes :
                   /\ learned_answers' =
                        SavedCollection(learned_answers, question, answer, confidence, db)
                   /\ response' =
                        [ResponseIdle EXCEPT
                            !.endpoint = "internet", !.question = question,
                            !.source = "internet", !.answer = answer,
                            !.confidence_score = confidence, !.generated = confidence,
                            !.calls = {"generate_internet", "save"},
                            !.store_ok = (db = "ok"),
                            !.save_if_confident = save_if_confident,
                            !.saved_to_db = SaveResult(db)]
           ELSE /\ learned_answers' = learned_answers
                /\ response' =
                        [ResponseIdle EXCEPT
                            !.endpoint = "internet", !.question = question,
                            !.source = "internet", !.answer = answer,
                            !.confidence_score = confidence, !.generated = confidence,
                            !.calls = {"generate_internet"},
                            !.save_if_confident = save_if_confident,
                            !.saved_to_db = FALSE]
        /\ UNCHANGED <<embedded, classified, ollama, next_id, lookups, saves, threads, disk, generation, store_call, index_ntotal, chunk_mapping, fetched, cache_call, diversity, parsed>>

\* forget(question): delete_learned_answer called by the cache management.
Forget(question) ==
    /\ learned_answers' = DeletedCollection(learned_answers, question, "ok")
    /\ response' = ResponseIdle
    /\ UNCHANGED <<embedded, classified, ollama, next_id, lookups, saves, threads, disk, generation, store_call, index_ntotal, chunk_mapping, fetched, cache_call, diversity, parsed>>

\* ========================================================= specifications
StoreInit ==
    /\ index_ntotal = 0
    /\ chunk_mapping = <<>>
    /\ fetched = FetchedIdle
    /\ store_call = StoreCallIdle
    /\ disk = DiskInit
    /\ threads = ThreadsIdle

\* The learned-answer collection as earlier internet queries can have left it:
\* empty, or holding the answer saved for one question.
SeededCollections ==
    {<<>>} \cup {<<LearnedDoc(q, "answer 1", LEARNING_THRESHOLD)>> : q \in Questions}

\* Primary path: ingestion, deletion of files and queries.
Init ==
    /\ StoreInit
    /\ learned_answers \in SeededCollections
    /\ cache_call = CacheIdle
    /\ saves = SavesIdle
    /\ lookups = LookupsIdle
    /\ next_id = 1
    /\ ollama = OllamaIdle
    /\ classified = ClassifiedIdle
    /\ embedded = EmbeddedIdle
    /\ generation = GenerationIdle
    /\ response = ResponseIdle
    /\ diversity = DiversityIdle
    /\ parsed = ParsedIdle

Next ==
    \/ \E file_path \in Files, n \in 1..MaxAdd :
            index_ntotal + n <= MaxIndexed /\ AddEmbeddings(file_path, n)
    \/ \E file_path \in Files : DeleteByFile(file_path)
    \/ \E question \in Questions, top_k \in TopKs : SmartQuery(question, top_k)

Spec == Init /\ [][Next]_vars

\* Primary path with every question a request can carry, the empty one included.
NextRequest ==
    \/ \E file_path \in Files, n \in 1..MaxAdd :
            index_ntotal + n <= MaxIndexed /\ AddEmbeddings(file_path, n)
    \/ \E file_path \in Files : DeleteByFile(file_path)
    \/ \E question \in RequestQuestions, top_k \in TopKs : SmartQuery(question, top_k)

SpecRequest == Init /\ [][NextRequest]_vars

\* Internet path: open-knowledge queries and cache management.
InitInternet ==
    /\ StoreInit
    /\ learned_answers = <<>>
    /\ cache_call = CacheIdle
    /\ saves = SavesIdle
    /\ lookups = LookupsIdle
    /\ next_id = 1
    /\ ollama = OllamaIdle
    /\ classified = ClassifiedIdle
    /\ embedded = EmbeddedIdle
    /\ generation = GenerationIdle
    /\ response = ResponseIdle
    /\ diversity = DiversityIdle
    /\ parsed = ParsedIdle

NextInternet ==
    \/ \E question \in Questions, save_if_confident \in BOOLEAN :
            InternetQuery(question, save_if_confident)
    \/ \E question \in Questions : Forget(question)

SpecInternet == InitInternet /\ [][NextInternet]_vars

\* The storage functions of the learned-answer cache, called one after another.
NextCache ==
    \/ \E question \in Questions, answer \in Answers,
          confidence_score \in SavedConfidences, db \in ClientModes :
            SaveLearnedAnswer(question, answer, confidence_score, db)
    \/ \E question \in Questions, db \in ClientModes : LookupLearnedAnswer(question, db)
    \/ \E question \in Questions, db \in ClientModes : DeleteLearnedAnswer(question, db)

SpecCache == InitInternet /\ [][NextCache]_vars

\* The k a caller of search_vectors passes: negative, zero and positive.
SearchKs == (-1)..MaxSearchK

\* The vector store on its own.
NextStore ==
    \/ \E file_path \in Files, n \in 1..MaxAdd :
            index_ntotal + n <= MaxVectors /\ AddEmbeddings(file_path, n)
    \/ \E file_path \in Files : DeleteByFile(file_path)
    \/ \E indices \in SeqsUpTo(0..MaxVectors, MaxFetch) : GetChunksByIndices(indices)

SpecStore == InitInternet /\ [][NextStore]_vars

\* The positions of the vector store: ingestion, deletion of files and searches.
NextPositions ==
    \/ \E file_path \in Files, n \in 1..MaxAdd :
            index_ntotal + n <= MaxVectors /\ AddEmbeddings(file_path, n)
    \/ \E file_path \in Files : DeleteByFile(file_path)
    \/ \E k \in SearchKs : SearchVectors(k)

SpecPositions == InitInternet /\ [][NextPositions]_vars

\* The vector store with writes that can fail and restarts of the process.
NextPersist ==
    \/ \E file_path \in Files, n \in 1..MaxAdd, io \in AddOutcomes :
            index_ntotal + n <= MaxPersisted /\ AddEmbeddingsIO(file_path, n, io)
    \/ \E file_path \in Files, io \in DeleteOutcomes : DeleteByFileIO(file_path, io)
    \/ Restart

SpecPersist == InitInternet /\ [][NextPersist]_vars

\* Two threads that call add_embeddings in parallel, searches in between, and
\* restarts of the process at any point.
NextConcurrent ==
    \/ \E t \in Threads, n \in 1..MaxAdd :
            index_ntotal + PendingVectors + n <= MaxShared /\ AddCall(t, n)
    \/ \E t \in Threads : AddToIndex(t)
    \/ \E t \in Threads : AddMapChunk(t)
    \/ \E t \in Threads : AddSaveIndex(t)
    \/ \E t \in Threads : AddSaveMapping(t)
    \/ \E t \in Threads : AddReturn(t)
    \/ \E k \in SearchKs : SearchVectors(k)
    \/ Restart

SpecConcurrent == InitInternet /\ [][NextConcurrent]_vars

\* Two clients that save in parallel, on an empty collection or on one that
\* holds an earlier answer.
InitUpsert ==
    /\ StoreInit
    /\ learned_answers \in {<<>>, <<StampedDoc(QPlain, "answer 1", LEARNING_THRESHOLD, 0)>>}
    /\ cache_call = CacheIdle
    /\ saves = SavesIdle
    /\ lookups = LookupsIdle
    /\ next_id = 1
    /\ ollama = OllamaIdle
    /\ classified = ClassifiedIdle
    /\ embedded = EmbeddedIdle
    /\ generation = GenerationIdle
    /\ response = ResponseIdle
    /\ diversity = DiversityIdle
    /\ parsed = ParsedIdle

NextUpsert ==
    \/ \E c \in Clients, question \in Questions, answer \in Answers,
          confidence_score \in SavedConfidences :
            SaveCall(c, question, answer, confidence_score)
    \/ \E c \in Clients : UpsertQuery(c)
    \/ \E c \in Clients : UpsertWrite(c)
    \/ \E c \in Clients : SaveReturn(c)

SpecUpsert == InitUpsert /\ [][NextUpsert]_vars

\* Two clients that look a question up while other clients save and forget
\* it; the collection starts with one record of the question, looked up once.
InitLookup ==
    /\ StoreInit
    /\ learned_answers = <<WithId(StampedDoc(QPlain, "answer 1", LEARNING_THRESHOLD, 0), 1)>>
    /\ cache_call = CacheIdle
    /\ saves = SavesIdle
    /\ lookups = LookupsIdle
    /\ next_id = 2
    /\ ollama = OllamaIdle
    /\ classified = ClassifiedIdle
    /\ embedded = EmbeddedIdle
    /\ generation = GenerationIdle
    /\ response = ResponseIdle
    /\ diversity = DiversityIdle
    /\ parsed = ParsedIdle

NextLookup ==
    \/ \E c \in Clients, question \in {QPlain, QCapital} : LookupFind(c, question)
    \/ \E c \in Clients : LookupUpdate(c)
    \/ \E c \in Clients : LookupReturn(c)
    \/ \E answer \in Answers : LookupSave(QPlain, answer, LEARNING_THRESHOLD)
    \/ LookupForget(QPlain)

SpecLookup == InitLookup /\ [][NextLookup]_vars

\* The local generation backend alone: one call and its attempts.
InitOllama ==
    /\ StoreInit
    /\ learned_answers = <<>>
    /\ cache_call = CacheIdle
    /\ saves = SavesIdle
    /\ lookups = LookupsIdle
    /\ next_id = 1
    /\ ollama = OllamaIdle
    /\ classified = ClassifiedIdle
    /\ embedded = EmbeddedIdle
    /\ generation = GenerationIdle
    /\ response = ResponseIdle
    /\ diversity = DiversityIdle
    /\ parsed = ParsedIdle

NextOllama ==
    \/ \E max_tokens \in OllamaMaxTokens : OllamaCall(max_tokens)
    \/ \E outcome \in OllamaOutcomes, text \in OllamaTexts : OllamaAttempt(outcome, text)

SpecOllama == InitOllama /\ [][NextOllama]_vars

\* Both query paths and the cache management on one cache: ask,
\* ask_with_open_knowledge and forget in any order (no document is indexed).
LearningQuestions == {QPlain, QCapital}

NextLearning ==
    \/ \E question \in LearningQuestions, top_k \in TopKs : SmartQuery(question, top_k)
    \/ \E question \in LearningQuestions, save_if_confident \in BOOLEAN :
            InternetQuery(question, save_if_confident)
    \/ \E question \in LearningQuestions : Forget(question)

SpecLearning == InitInternet /\ [][NextLearning]_vars

\* The question classifier alone, on one question.
InitClassify ==
    /\ StoreInit
    /\ learned_answers = <<>>
    /\ cache_call = CacheIdle
    /\ saves = SavesIdle
    /\ lookups = LookupsIdle
    /\ next_id = 1
    /\ ollama = OllamaIdle
    /\ embedded = EmbeddedIdle
    /\ generation = GenerationIdle
    /\ response = ResponseIdle
    /\ diversity = DiversityIdle
    /\ parsed = ParsedIdle
    /\ \E question \in ClassifiedQuestions :
          classified = [ClassifiedIdle EXCEPT !.question = question]

SpecClassify == InitClassify /\ [][CallClassify]_vars

\* Queries of several top_k on an index of up to MaxContextVectors vectors,
\* ingested two chunks of a file at a time.
ContextTopKs == {1, 4, 21}

InitContext ==
    /\ StoreInit
    /\ learned_answers \in {<<>>, <<LearnedDoc(QPlain, "answer 1", LEARNING_THRESHOLD)>>}
    /\ cache_call = CacheIdle
    /\ saves = SavesIdle
    /\ lookups = LookupsIdle
    /\ next_id = 1
    /\ ollama = OllamaIdle
    /\ classified = ClassifiedIdle
    /\ embedded = EmbeddedIdle
    /\ generation = GenerationIdle
    /\ response = ResponseIdle
    /\ diversity = DiversityIdle
    /\ parsed = ParsedIdle

NextContext ==
    \/ \E file_path \in Files :
            index_ntotal + 2 <= MaxContextVectors /\ AddEmbeddings(file_path, 2)
    \/ \E top_k \in ContextTopKs : SmartQuery(QPlain, top_k)

SpecContext == InitContext /\ [][NextContext]_vars

\* Ingestion and queries with their embedding step, under the cloud or the
\* local configuration of the process.
InitEmbed ==
    /\ StoreInit
    /\ learned_answers = <<>>
    /\ cache_call = CacheIdle
    /\ saves = SavesIdle
    /\ lookups = LookupsIdle
    /\ next_id = 1
    /\ ollama = OllamaIdle
    /\ classified = ClassifiedIdle
    /\ generation = GenerationIdle
    /\ response = ResponseIdle
    /\ diversity = DiversityIdle
    /\ parsed = ParsedIdle
    /\ \E use_cloud \in BOOLEAN :
          embedded = [EmbeddedIdle EXCEPT !.use_cloud = use_cloud]

NextEmbed ==
    \/ \E file_path \in Files, n \in 1..MaxAdd, cohere \in CohereOutcomes \cup {"unused"} :
            index_ntotal + n <= MaxVectors /\ EmbedAndAdd(file_path, n, cohere)
    \/ \E k \in 1..MaxSearchK, cohere \in CohereOutcomes \cup {"unused"} :
            EmbedAndSearch(k, cohere)

SpecEmbed == InitEmbed /\ [][NextEmbed]_vars

\* One call of the reranker on every candidate list within the bounds.
InitDiversity ==
    /\ StoreInit
    /\ learned_answers = <<>>
    /\ cache_call = CacheIdle
    /\ saves = SavesIdle
    /\ lookups = LookupsIdle
    /\ next_id = 1
    /\ ollama = OllamaIdle
    /\ classified = ClassifiedIdle
    /\ embedded = EmbeddedIdle
    /\ generation = GenerationIdle
    /\ response = ResponseIdle
    /\ parsed = ParsedIdle
    /\ \E files \in SeqsUpTo(DivFiles, MaxCandidates),
          max_chunks \in (-1)..MaxChunksArg, max_per_file \in 0..MaxPerFileArg :
            diversity = [DiversityIdle EXCEPT !.chunks = Candidates(files),
                            !.max_chunks = max_chunks, !.max_per_file = max_per_file]

SpecDiversity == InitDiversity /\ [][CallDiversity]_vars

\* One call of the parser on every response text within the bounds.
InitParser ==
    /\ StoreInit
    /\ learned_answers = <<>>
    /\ cache_call = CacheIdle
    /\ saves = SavesIdle
    /\ lookups = LookupsIdle
    /\ next_id = 1
    /\ ollama = OllamaIdle
    /\ classified = ClassifiedIdle
    /\ embedded = EmbeddedIdle
    /\ generation = GenerationIdle
    /\ response = ResponseIdle
    /\ diversity = DiversityIdle
    /\ \E text \in SeqsUpTo(Tokens, MaxTextLen) :
            parsed = [ParsedIdle EXCEPT !.text = text]

SpecParser == InitParser /\ [][CallParse]_vars

\* One call of a generation entry point on every cloud outcome and, when the
\* cloud answers, every response text within the bounds.
InitGenerate ==
    /\ StoreInit
    /\ learned_answers = <<>>
    /\ cache_call = CacheIdle
    /\ saves = SavesIdle
    /\ lookups = LookupsIdle
    /\ next_id = 1
    /\ ollama = OllamaIdle
    /\ classified = ClassifiedIdle
    /\ embedded = EmbeddedIdle
    /\ response = ResponseIdle
    /\ diversity = DiversityIdle
    /\ parsed = ParsedIdle
    /\ \E fn \in {"generate_with_confidence", "generate_with_groq"},
          cloud \in CloudOutcomes :
            \E text \in IF cloud = "ok" THEN SeqsUpTo(Tokens, MaxTextLen) ELSE {<<>>} :
                generation = [GenerationIdle EXCEPT !.fn = fn, !.cloud = cloud, !.text = text]

NextGenerate == GenerateWithConfidence \/ GenerateWithGroq

SpecGenerate == InitGenerate /\ [][NextGenerate]_vars

\* ================================================================= claims
\* Number of chunks of one file in a chunk list.
CountOfFile(chunks, file_path) ==
    Cardinality({i \in 1..Len(chunks) : chunks[i].file_path = file_path})

\* C1: get_chunks_by_indices never returns a chunk that delete_by_file has
\* flagged as deleted, whatever indices it is given and whatever adds and
\* deletes came before.
C1_NoDeletedChunkReturned ==
    fetched.called => \A i \in 1..Len(fetched.chunks) : ~fetched.chunks[i].deleted

\* C2: for a non-negative max_chunks and a positive max_per_file the reranker
\* returns at most max_chunks chunks and at most max_per_file chunks of any one
\* file, also when every candidate comes from the same file.
C2_DiversityCap ==
    (diversity.called /\ diversity.max_chunks >= 0 /\ diversity.max_per_file >= 1) =>
        /\ Len(diversity.result) <= diversity.max_chunks
        /\ \A fp \in DivFiles :
              CountOfFile(diversity.result, fp) <= diversity.max_per_file

\* C3: the reranker's result holds candidates of its input only, none of them
\* twice, and two candidates of the same file keep their input order.
C3_OrderPreserved ==
    diversity.called =>
        /\ \A i \in 1..Len(diversity.result) :
              \E k \in 1..Len(diversity.chunks) : diversity.chunks[k] = diversity.result[i]
        /\ \A i, j \in 1..Len(diversity.result) :
              i < j =>
                /\ diversity.result[i].text # diversity.result[j].text
                /\ diversity.result[i].file_path = diversity.result[j].file_path
                      => diversity.result[i].text < diversity.result[j].text

\* Two candidates of one file in the result, a candidate of another file between them.
C3_Witness ==
    /\ diversity.called
    /\ Len(diversity.result) >= 3
    /\ diversity.result[1].file_path = diversity.result[3].file_path
    /\ diversity.result[1].file_path # diversity.result[2].file_path
    /\ diversity.result[3].text > diversity.result[2].text

\* C4: the parsed confidence lies in 0..100; "CONFIDENCE: 150" gives 100,
\* "CONFIDENCE: -5" gives 0, and a text without the CONFIDENCE: field gives 50.
C4_ConfidenceClamp ==
    parsed.called =>
        /\ parsed.confidence_score \in 0..100
        /\ parsed.text = <<"CONFIDENCE:", " ", "1", "5", "0">> => parsed.confidence_score = 100
        /\ parsed.text = <<"CONFIDENCE:", " ", "-", "5">> => parsed.confidence_score = 0
        /\ (\A i \in 1..Len(parsed.text) : parsed.text[i] # "CONFIDENCE:")
              => parsed.confidence_score = 50

\* "what is photosynthesis?"
QCapitalKey == <<"w","h","a","t"," ","i","s"," ","p","h","o","t","o","s","y","n","t","h","e","s","i","s","?">>

HasKey(coll, key) == \E i \in 1..Len(coll) : coll[i].question_lower = key

\* C5 as stated: with a record stored under "what is photosynthesis" and the
\* store reachable, the query "What is Photosynthesis?" is answered from the
\* cache, without embedding, search or generation.
C5_CapitalQuestionHitsPlainKey ==
    (/\ response.endpoint = "query"
     /\ response.question = QCapital
     /\ response.store_ok
     /\ HasKey(learned_answers, QPlain))
        => (response.source = "learned" /\ response.calls = {})

\* C5 as amended: the query "What is Photosynthesis?" is answered from the
\* cache, without embedding, search or generation, when the store is reachable
\* and holds a record under "what is photosynthesis?" (lower-cased and trimmed,
\* the question mark kept), and only then.
C5_LookupNormalization ==
    (response.endpoint = "query" /\ response.question = QCapital) =>
        /\ (response.store_ok /\ HasKey(learned_answers, QCapitalKey))
              => (response.source = "learned" /\ response.calls = {})
        /\ ~HasKey(learned_answers, QCapitalKey) => response.source # "learned"

C5_Witness ==
    /\ response.endpoint = "query"
    /\ response.question = QCapital
    /\ response.source = "learned"
    /\ HasKey(learned_answers, QCapitalKey)

\* C6: a query whose lookup hits returns source learned, offer_internet false
\* and the stored answer and confidence, and calls neither the embedder, the
\* index nor the generator; a query that returns normally without searching the
\* index is a cache hit.
C6_CacheHitShortCircuit ==
    response.endpoint = "query" =>
        LET i == FindOne(learned_answers, QuestionLower(response.question))
        IN  /\ (response.store_ok /\ i # 0) =>
                  /\ response.source = "learned"
                  /\ ~response.offer_internet
                  /\ response.answer = learned_answers[i].answer
                  /\ response.confidence_score = learned_answers[i].confidence_score
                  /\ response.calls = {}
                  /\ response.error = "none"
            /\ (response.error = "none" /\ "search" \notin response.calls)
                  => (response.source = "learned" /\ response.store_ok /\ i # 0)

C6_Witness ==
    /\ response.endpoint = "query"
    /\ response.question = QPadded
    /\ response.source = "learned"
    /\ response.answer = "answer 1"
    /\ response.calls = {}

C8_LocalThreshold ==
    (response.endpoint = "query" /\ "generate" \in response.calls) =>
        /\ response.source = "local_db"
        /\ response.confidence_score = response.generated
        /\ response.confidence_score \in 0..100
        /\ response.offer_internet <=> (response.confidence_score < 60)

C8_Witness ==
    /\ response.endpoint = "query"
    /\ response.source = "local_db"
    /\ response.confidence_score = 60
    /\ ~response.offer_internet

\* C9: an internet query attempts the save exactly when save_if_confident is set
\* and the confidence is at least 90; saved_to_db is true exactly when the save
\* was attempted and the store took it, and then the cache holds the record of
\* this question, answer and confidence; without an attempt the cache is unchanged.
C9_LearningThreshold ==
    [][response'.endpoint = "internet" =>
          /\ ("save" \in response'.calls)
                <=> (response'.save_if_confident /\ response'.confidence_score >= 90)
          /\ response'.saved_to_db <=> ("save" \in response'.calls /\ response'.store_ok)
          /\ response'.saved_to_db =>
                \E i \in 1..Len(learned_answers') :
                    /\ learned_answers'[i].question = response'.question
                    /\ learned_answers'[i].answer = response'.answer
                    /\ learned_answers'[i].confidence_score = response'.confidence_score
          /\ ~response'.saved_to_db => learned_answers' = learned_answers
      ]_vars

C9_Witness ==
    /\ response.endpoint = "internet"
    /\ response.confidence_score = 92
    /\ response.save_if_confident
    /\ response.saved_to_db
    /\ \E i \in 1..Len(learned_answers) :
          /\ learned_answers[i].question = response.question
          /\ learned_answers[i].confidence_score = 92

\* The questions that share a normalized form (case-folded, trimmed).
NormalFormClasses == {{QCapital}, {QPlain, QPadded}}

SameNormalForm(q1, q2) == \E class \in NormalFormClasses : q1 \in class /\ q2 \in class

\* C10: the cache never holds two records whose questions share a normalized
\* form, and right after a successful save the one record of the saved
\* question's normalized form carries that save's answer and confidence.
C10_IdempotentUpsert ==
    /\ \A i, j \in 1..Len(learned_answers) :
          SameNormalForm(learned_answers[i].question, learned_answers[j].question) => i = j
    /\ (cache_call.op = "save" /\ cache_call.result) =>
          \E i \in 1..Len(learned_answers) :
              /\ SameNormalForm(learned_answers[i].question, cache_call.question)
              /\ learned_answers[i].answer = cache_call.answer
              /\ learned_answers[i].confidence_score = cache_call.confidence_score

\* A successful save of the padded, capitalised spelling onto the record that
\* its normalized form already had.
C10_Witness ==
    /\ cache_call.op = "save"
    /\ cache_call.result
    /\ cache_call.matched
    /\ cache_call.question = QPadded
    /\ cache_call.answer = "answer 2"
    /\ Len(learned_answers) = 1

\* ------------------------------------------------------------------- C11
\* C11: a save for a question whose normalized form is already stored does
\* not reset the access counter: when the counter was n before the save, it
\* is at least n + 1 after the save and the lookup hit that follows it.
C11_SaveKeepsAccessCount ==
    [][(/\ cache_call.op = "save"
        /\ cache_call.matched
        /\ cache_call.result
        /\ cache_call'.op = "lookup"
        /\ cache_call'.matched
        /\ SameNormalForm(cache_call'.question, cache_call.question))
       => \E i \in 1..Len(learned_answers') :
             /\ SameNormalForm(learned_answers'[i].question, cache_call.question)
             /\ learned_answers'[i].access_count >= cache_call.access_count + 1]_vars

\* ------------------------------------------------------------------- C12
\* C12: search on an index with zero entries returns an empty result and
\* never raises, for every k (zero and negative included); on a non-empty
\* index with a positive k it returns exactly min(k, total_count) entries.
C12_SearchNeverRaisesOnEmpty ==
    store_call.op = "search" =>
        /\ store_call.ntotal = 0 =>
              ~store_call.raised /\ store_call.indices = <<>>
        /\ (store_call.ntotal > 0 /\ store_call.arg > 0) =>
              /\ ~store_call.raised
              /\ Len(store_call.indices) = Min(store_call.arg, store_call.ntotal)

\* ------------------------------------------------------------------- C13
\* The positions are dense: exactly 0..total_vectors-1 carry a mapping entry.
PositionsDense ==
    /\ DOMAIN chunk_mapping = 0..(index_ntotal - 1)
    /\ Cardinality(DOMAIN chunk_mapping) = index_ntotal

\* An add of n chunks on an index of t vectors returned t..t+n-1 and each of
\* these positions maps to its chunk.
AddReturnsNewPositions ==
    store_call.op = "add" =>
        /\ Len(store_call.indices) = store_call.arg
        /\ \A i \in 1..store_call.arg :
              /\ store_call.indices[i] = store_call.ntotal + i - 1
              /\ store_call.indices[i] \in DOMAIN chunk_mapping
              /\ chunk_mapping[store_call.indices[i]] = NewChunk(store_call.file_path, i - 1)

\* A step hands out no position that is already assigned and keeps the chunk
\* of every assigned position.
PositionsNeverReassigned ==
    /\ \A idx \in DOMAIN chunk_mapping :
          /\ idx \in DOMAIN chunk_mapping'
          /\ chunk_mapping'[idx].file_path = chunk_mapping[idx].file_path
          /\ chunk_mapping'[idx].chunk_id = chunk_mapping[idx].chunk_id
    /\ store_call'.op = "add" =>
          \A i \in 1..Len(store_call'.indices) :
              store_call'.indices[i] \notin DOMAIN chunk_mapping

\* C13: add with n vectors and n chunks on an index of t vectors returns
\* exactly the positions t..t+n-1 and maps each to its chunk; after any
\* sequence of add and soft_delete the positions are exactly
\* 0..total_vectors-1, total_vectors equals the number of mapping entries, and
\* no position is ever reassigned.
C13_DensePositions ==
    /\ [](PositionsDense /\ AddReturnsNewPositions)
    /\ [][PositionsNeverReassigned]_vars

\* An add of two chunks onto an index that holds a flagged chunk already.
C13_Witness ==
    /\ store_call.op = "add"
    /\ store_call.ntotal >= 1
    /\ store_call.arg = 2
    /\ \E idx \in DOMAIN chunk_mapping : chunk_mapping[idx].deleted

\* ------------------------------------------------------------------- C14
\* C14: ask rejects an empty question and a top_k that is not positive as an
\* input error before any lookup, embedding, search or generation: such a
\* request never yields a normal answer and never reaches the index.
C14_InputRejected ==
    (/\ response.endpoint = "query"
     /\ response.question = QEmpty \/ response.top_k <= 0)
    => /\ response.error = "input"
       /\ response.source = ""
       /\ response.calls = {}

\* ------------------------------------------------------------------- C15
\* C15: generate_with_confidence tries the cloud backend first; after a
\* rate-limit error it retries against the local backend and returns that
\* backend's answer; after any other error it returns an error-message answer
\* with confidence 0.
C15_RateLimitFallsBackToLocal ==
    (generation.called /\ generation.fn = "generate_with_confidence") =>
        /\ generation.cloud = "rate_limit" =>
              generation.local_calls = 1 /\ generation.answer = "local"
        /\ generation.cloud = "error" =>
              generation.answer = "error" /\ generation.confidence_score = 0

\* ------------------------------------------------------------------- C16
\* The files on disk hold an index and a mapping that belong together.
DiskConsistent(d) ==
    /\ ~d.index_torn
    /\ ~d.mapping_torn
    /\ DOMAIN d.mapping = 0..(d.index_ntotal - 1)

\* C16: when persisting the index or the mapping fails during add or
\* soft_delete, the operation does not report success, and neither the store
\* in memory nor the store on disk is left with vectors that lack mapping
\* entries or with a state the caller was not told about.
C16_FailedWriteLeavesNoTrace ==
    [][(store_call'.op \in {"add", "delete"} /\ store_call'.io # "ok")
       => /\ store_call'.raised
          /\ index_ntotal' = index_ntotal
          /\ chunk_mapping' = chunk_mapping
          /\ DOMAIN chunk_mapping' = 0..(index_ntotal' - 1)
          /\ DiskConsistent(disk) => (DiskConsistent(disk') /\ disk' = disk)]_vars

\* ------------------------------------------------------------------- C17
\* C17: save on the learned-answer cache never raises to its caller; when the
\* store is not configured, not reachable or the write fails it returns false
\* and the cache is unchanged; it returns true only when the upsert was applied.
C17_SaveNeverRaises ==
    [][cache_call'.op = "save" =>
          /\ ~cache_call'.raised
          /\ cache_call'.db # "ok" =>
                ~cache_call'.result /\ learned_answers' = learned_answers
          /\ cache_call'.result =>
                \E i \in 1..Len(learned_answers') :
                    /\ learned_answers'[i].question = cache_call'.question
                    /\ learned_answers'[i].answer = cache_call'.answer
                    /\ learned_answers'[i].confidence_score = cache_call'.confidence_score]_vars

\* ------------------------------------------------------------------- C18
\* C18: parallel add calls are serialized: whatever the interleaving of two
\* add calls, they receive disjoint contiguous ranges of positions, neither
\* overwrites a mapping entry of the other, and afterwards total_vectors
\* equals the number of mapping entries.
C18_ParallelAddsSerialized ==
    (\A t \in Threads : threads[t].pc = "done") =>
        /\ \A i \in 1..Len(threads[1].indices), j \in 1..Len(threads[2].indices) :
              threads[1].indices[i] # threads[2].indices[j]
        /\ \A t \in Threads : \A i \in 1..Len(threads[t].indices) :
              /\ threads[t].indices[i] = threads[t].start_idx + i - 1
              /\ threads[t].indices[i] \in DOMAIN chunk_mapping
              /\ chunk_mapping[threads[t].indices[i]] = NewChunk(ThreadFile(t), i - 1)
        /\ index_ntotal = Cardinality(DOMAIN chunk_mapping)

\* ------------------------------------------------------------------- C19
\* C19: the vectors and the mapping are updated together: no search that runs
\* beside an add, and no reload after a crash during an add, observes a
\* position that is in the index without a mapping entry or in the mapping
\* without a vector; the persisted pair of files is never torn.
C19_VectorsAndMappingTogether ==
    /\ (store_call.op = "search" /\ ~store_call.raised) =>
          /\ \A i \in 1..Len(store_call.indices) :
                store_call.indices[i] \in DOMAIN chunk_mapping
          /\ \A p \in DOMAIN chunk_mapping : p < store_call.ntotal
    /\ store_call.op = "restart" =>
          DOMAIN chunk_mapping = 0..(index_ntotal - 1)

\* ------------------------------------------------------------------- C20
\* The records stored under the key of a document.
RecordsOfKey(key) ==
    {i \in 1..Len(learned_answers) : learned_answers[i].question_lower = key}

\* C20: whatever the interleaving of parallel saves of one normalized
\* question, the cache ends with exactly one record for the question, and the
\* fields of that record (question, answer, confidence_score, timestamps) come
\* from a single one of the save calls.
C20_ParallelSavesOneRecord ==
    (/\ \A c \in Clients : saves[c].pc = "done"
     /\ saves[1].doc.question_lower = saves[2].doc.question_lower)
    => /\ Cardinality(RecordsOfKey(saves[1].doc.question_lower)) = 1
       /\ \A i \in RecordsOfKey(saves[1].doc.question_lower) :
             \E c \in Clients : learned_answers[i] = saves[c].doc

\* ------------------------------------------------------------------- C21
\* C21: every lookup hit atomically raises the stored access_count of the
\* record by exactly 1 before the record is returned: the record a finished
\* lookup returned carries the raised count, no update of a hit raises the
\* stored count by anything but 1 when no save or forget came between, and an
\* update that races with a forget never creates a record.
C21_LookupHitCountsAtomically ==
    /\ [](\A c \in Clients :
            (lookups[c].pc = "done" /\ lookups[c].hit) =>
               /\ lookups[c].stored_after = lookups[c].stored_before + 1
               /\ lookups[c].result.access_count = lookups[c].stored_after)
    /\ [][\A c \in Clients :
            LookupUpdate(c) => Len(learned_answers') = Len(learned_answers)]_vars

\* ------------------------------------------------------------------- C22
\* C22: a call of the local generation backend makes at most 3 attempts and
\* ends with a result string; every attempt but the last one met a
\* resource-exhaustion 500 (nothing else is retried), the wait after the i-th
\* attempt is 2 s x i, and a call whose attempts are all used up by retries
\* returns the terminal failure message.
C22_BoundedRetriesOnExhaustionOnly ==
    /\ Len(ollama.outcomes) <= 3
    /\ ollama.pc = "attempt" => ollama.attempt < 3
    /\ ollama.pc = "done" => ollama.result # "none"
    /\ \A i \in 1..(Len(ollama.outcomes) - 1) : ollama.outcomes[i] = "500_memory"
    /\ \A i \in 1..Len(ollama.sleeps) : ollama.sleeps[i] = 2 * i
    /\ (ollama.pc = "done" /\ Len(ollama.sleeps) = 3) =>
          ollama.result = "Error: Failed after multiple retries. Please restart Ollama and try again."

\* ------------------------------------------------------------------- C23
\* C23: in the local generation backend a connection-refused error, a
\* timeout, a 500 that is not resource exhaustion and any other status each
\* end the call on the attempt where they occur: no attempt follows one.
C23_TerminalErrorsNotRetried ==
    \A i \in 1..Len(ollama.outcomes) :
        ollama.outcomes[i] \in {"ConnectionError", "Timeout", "500_other", "status_other"}
        => (i = Len(ollama.outcomes) /\ ollama.pc = "done")

\* ------------------------------------------------------------------- C24
\* C24: after any sequence of ask, ask_with_open_knowledge and forget, every
\* record of the learned-answer cache has confidence_score >= 90 and source
\* "internet"; an internet answer of confidence below 90, such as the
\* confidence 0 of a provider error, leaves the cache as it was.
C24_OnlyConfidentInternetAnswersStored ==
    /\ [](\A i \in 1..Len(learned_answers) :
             /\ learned_answers[i].confidence_score >= 90
             /\ learned_answers[i].source = "internet")
    /\ [][(response'.endpoint = "internet" /\ response'.confidence_score < 90)
             => learned_answers' = learned_answers]_vars

\* A provider error (confidence 0) answered with save_if_confident set, on a
\* cache that holds a record learned earlier.
C24_Witness ==
    /\ response.endpoint = "internet"
    /\ response.save_if_confident
    /\ response.confidence_score = 0
    /\ ~response.saved_to_db
    /\ Len(learned_answers) > 0

\* ------------------------------------------------------------------- C25
\* C25: whatever its outcome (cache hit, no documents, an error, any local
\* confidence), smart_query never calls the open-knowledge generation or the
\* save; it creates, overwrites and removes no learned record, its only effect
\* on the cache being access_count + 1 on the record it hit; and it leaves the
\* index, the mapping and their files as they were.
C25_PrimaryPathNeverEscalates ==
    [][response'.endpoint = "query" =>
          /\ response'.calls \subseteq {"embed", "search", "generate"}
          /\ Len(learned_answers') = Len(learned_answers)
          /\ \A i \in 1..Len(learned_answers) :
                \/ learned_answers'[i] = learned_answers[i]
                \/ /\ response'.source = "learned"
                   /\ i = FindOne(learned_answers, QuestionKey[response'.question])
                   /\ learned_answers'[i] =
                         [learned_answers[i] EXCEPT !.access_count = @ + 1]
          /\ response'.source # "learned" => learned_answers' = learned_answers
          /\ index_ntotal' = index_ntotal
          /\ chunk_mapping' = chunk_mapping
          /\ disk' = disk
      ]_vars

\* A cache hit on a store that holds a document: the record was counted.
C25_Witness ==
    /\ response.endpoint = "query"
    /\ response.source = "learned"
    /\ index_ntotal > 0
    /\ \E i \in 1..Len(learned_answers) :
          /\ learned_answers[i].question_lower = QuestionKey[response.question]
          /\ learned_answers[i].access_count = 2

\* ------------------------------------------------------------------- C26
\* The reference round-robin, stated without loops.  A candidate's round is
\* its number among the candidates of its file, its file's turn is the place
\* of the file's first candidate; the candidates of round <= max_per_file are
\* listed by round, then by turn, and the first max_chunks of them are kept.
RoundOf(chunks, k) ==
    Cardinality({j \in 1..k : chunks[j].file_path = chunks[k].file_path})

TurnOf(chunks, k) ==
    CHOOSE j \in 1..k :
        /\ chunks[j].file_path = chunks[k].file_path
        /\ \A h \in 1..(j - 1) : chunks[h].file_path # chunks[k].file_path

VisitedBefore(chunks, j, k) ==
    \/ RoundOf(chunks, j) < RoundOf(chunks, k)
    \/ RoundOf(chunks, j) = RoundOf(chunks, k) /\ TurnOf(chunks, j) < TurnOf(chunks, k)

FirstOf(seq, n) == SubSeq(seq, 1, Min(Len(seq), Max(n, 0)))

ReferenceRoundRobin(chunks, max_chunks, max_per_file) ==
    LET eligible == {k \in 1..Len(chunks) : RoundOf(chunks, k) <= max_per_file}
        place(k) == 1 + Cardinality({j \in eligible : VisitedBefore(chunks, j, k)})
        listed == [n \in 1..Cardinality(eligible) |->
                      chunks[CHOOSE k \in eligible : place(k) = n]]
    IN  IF \A j, k \in 1..Len(chunks) : chunks[j].file_path = chunks[k].file_path
        THEN FirstOf(chunks, max_chunks)
        ELSE FirstOf(listed, max_chunks)

\* C26: for every input, max_chunks <= 0 and max_per_file <= 0 included, the
\* reranker returns what the reference round-robin returns: the first
\* max_chunks candidates when they all come from one file, else the files
\* visited in first-appearance order round after round, each file capped at
\* max_per_file, up to max_chunks; [] for no candidate; and a max_per_file
\* no smaller than any file's count gives what no cap gives.
C26_EqualsReferenceRoundRobin ==
    diversity.called =>
        /\ diversity.result =
              ReferenceRoundRobin(diversity.chunks, diversity.max_chunks,
                                  diversity.max_per_file)
        /\ diversity.chunks = <<>> => diversity.result = <<>>
        /\ (\A fp \in DivFiles :
               CountOfFile(diversity.chunks, fp) <= diversity.max_per_file)
              => diversity.result =
                    ReferenceRoundRobin(diversity.chunks, diversity.max_chunks,
                                        Len(diversity.chunks))

\* ------------------------------------------------------------------- C27
\* The cue groups in the order the claim fixes.
CueGroupsInOrder ==
    <<[type |-> "definition",  cues |-> DefinitionCues],
      [type |-> "how_to",      cues |-> HowToCues],
      [type |-> "comparison",  cues |-> ComparisonCues],
      [type |-> "example",     cues |-> ExampleCues],
      [type |-> "list",        cues |-> ListCues],
      [type |-> "explanation", cues |-> ExplanationCues]>>

\* A cue occurs in a question as a substring, letter case ignored.
OccursIgnoringCase(cue, question) ==
    \E i \in 1..Len(question) :
        /\ i + Len(cue) - 1 <= Len(question)
        /\ \A j \in 1..Len(cue) : LowerChar(question[i + j - 1]) = cue[j]

GroupHasCueIn(g, question) ==
    \E n \in 1..Len(CueGroupsInOrder[g].cues) :
        OccursIgnoringCase(CueGroupsInOrder[g].cues[n], question)

\* C27: the classifier gives every question exactly one of the seven types:
\* the type of the first cue group, in the order definition, how_to,
\* comparison, example, list, explanation, one of whose cues occurs in the
\* question as a case-insensitive substring, and other when no cue occurs;
\* get_question_context returns that type with the guidance string of the type.
C27_FirstMatchingCueGroup ==
    classified.called =>
        /\ classified.type \in {"definition", "how_to", "comparison", "example",
                                "list", "explanation", "other"}
        /\ \A g \in 1..6 :
              classified.type = CueGroupsInOrder[g].type
                 <=> /\ GroupHasCueIn(g, classified.question)
                     /\ \A h \in 1..(g - 1) : ~GroupHasCueIn(h, classified.question)
        /\ classified.type = "other"
              <=> \A g \in 1..6 : ~GroupHasCueIn(g, classified.question)
        /\ classified.guidance = GuidanceMap[classified.type]
        /\ \A other_type \in DOMAIN GuidanceMap :
              other_type # classified.type => GuidanceMap[other_type] # classified.guidance

\* "COMPARE list?": upper-case cue of the comparison group before a cue of the
\* list group; the earlier group gives the type.
C27_Witness ==
    /\ classified.called
    /\ classified.question =
          <<"C", "O", "M", "P", "A", "R", "E", " ", "l", "i", "s", "t", "?">>
    /\ classified.type = "comparison"

\* ------------------------------------------------------------------- C28
\* C28: delete_by_file(file_path) returns the number of mapping entries of
\* the file and changes nothing but their deleted flag: the number of
\* vectors, the number and the set of mapped positions, the chunk and the
\* file of every entry and the entries of other files stay as they were; for
\* a file without entries it returns 0 and changes nothing.
C28_SoftDeleteFrame ==
    [][store_call'.op = "delete" =>
          LET file_path == store_call'.file_path
              of_file == {idx \in DOMAIN chunk_mapping :
                             chunk_mapping[idx].file_path = file_path}
          IN  /\ store_call'.count = Cardinality(of_file)
              /\ index_ntotal' = index_ntotal
              /\ DOMAIN chunk_mapping' = DOMAIN chunk_mapping
              /\ \A idx \in DOMAIN chunk_mapping :
                    /\ chunk_mapping'[idx].file_path = chunk_mapping[idx].file_path
                    /\ chunk_mapping'[idx].chunk_id = chunk_mapping[idx].chunk_id
                    /\ idx \in of_file => chunk_mapping'[idx].deleted
                    /\ idx \notin of_file => chunk_mapping'[idx] = chunk_mapping[idx]
              /\ learned_answers' = learned_answers
              /\ of_file = {} =>
                    /\ store_call'.count = 0
                    /\ chunk_mapping' = chunk_mapping
                    /\ disk' = disk
      ]_vars

\* Two entries of the deleted file flagged and counted, the entry of the
\* other file left unflagged.
C28_Witness ==
    /\ store_call.op = "delete"
    /\ store_call.count = 2
    /\ index_ntotal = 3
    /\ \E idx \in DOMAIN chunk_mapping :
          /\ chunk_mapping[idx].file_path # store_call.file_path
          /\ ~chunk_mapping[idx].deleted
    /\ \A idx \in DOMAIN chunk_mapping :
          chunk_mapping[idx].file_path = store_call.file_path => chunk_mapping[idx].deleted

\* ------------------------------------------------------------------- C29
\* C29: for every positive top_k, smart_query asks the index for exactly
\* min(2 x top_k, 40) candidates, and the context it hands to the generation
\* holds at least one and at most top_k chunks, at most max(3, top_k // 2) of
\* them of any one file.
C29_ContextCaps ==
    (response.endpoint = "query" /\ response.top_k >= 1) =>
        /\ "search" \in response.calls =>
              response.search_k = Min(2 * response.top_k, 40)
        /\ "generate" \in response.calls =>
              /\ response.context # <<>>
              /\ Len(response.context) <= response.top_k
              /\ \A fp \in Files :
                    CountOfFile(response.context, fp)
                       <= Max(3, response.top_k \div 2)

\* ------------------------------------------------------------------- C30
\* C30: every vector handed to the index by an add or a search has the
\* dimension the index was created with, also when the cloud embedding
\* backend fails and the embedder falls back to the local model.
C30_VectorsHaveIndexDimension ==
    (embedded.op \in {"add", "search"} /\ embedded.handed) =>
        embedded.dim = embedded.index_d

====
